---- MODULE Spec2Model ----
(***************************************************************************)
(* A model of operator_repo: the check engine (checks/__init__.py), the    *)
(* Bundle version ordering and the update graph builder (core.py).         *)
(*                                                                         *)
(* Python strings are modelled as sequences of one-character strings, so   *)
(* that startswith, split, lstrip and string comparison are computed from  *)
(* the characters, as the code computes them.                              *)
(***************************************************************************)
EXTENDS Integers, Sequences, FiniteSets, TLC

(***************************************************************************)
(* Bounds of the model.                                                    *)
(***************************************************************************)
\* longest list of targets handed to run_suite
MaxTargets == 2
\* most results the rules of one run yield, all invocations together
MaxYields == 2

\* comparisons of bundles recorded in one run
MaxCompares == 3

\* most version directories in one operator directory
MaxBundles == 3


VARIABLES
    \* ---- check engine ----
    modules,      \* the suite's submodules: kind -> Missing or Module(members)
    suite_name,   \* run_suite(suite_name=...)
    skip_tests,   \* run_suite(skip_tests=...): sequence of names
    tests,        \* run_suite(tests=...): sequence of names, <<>> for None or []
    targets,      \* run_suite(targets=...): sequence of resources
    checks,       \* the local `checks` of run_suite: kind -> sequence of rules
    pc,           \* position of the run_suite generator
    ti,           \* index of the current target
    ki,           \* index into SUPPORTED_TYPES
    ci,           \* index into checks[kind]
    any_results,  \* the local `any_results` of the running run_check
    out,          \* everything the generator has yielded so far
    calls,        \* history: one record per run_check invocation
    \* ---- one Operator ----
    bundles,      \* the Bundle objects of the operator, one per version directory
    updateGraph,  \* the operator's ci.yaml: config.get("updateGraph"), or Absent
    cmps,         \* history: the Bundle comparisons evaluated so far
    ret,          \* what the last Operator method called returned or raised
    \* ---- the caches of one Repo and of one Operator ----
    fs,           \* the directory of each parent: entry name -> what is there
    cache,        \* _operator_cache / _bundle_cache: key -> object, 0 if no key
    made,         \* the number of child objects each parent has constructed
    listing,      \* the entries a running all_operators / all_bundles has left
    got,          \* what the last call (or next() of a generator) gave
    resolved      \* history: every <<parent, key, object>> handed out so far

engineVars == <<modules, suite_name, skip_tests, tests, targets, checks, pc,
                ti, ki, ci, any_results, out, calls>>

operatorVars == <<bundles, updateGraph, cmps, ret>>

cacheVars == <<fs, cache, made, listing, got, resolved>>

vars == <<modules, suite_name, skip_tests, tests, targets, checks, pc,
          ti, ki, ci, any_results, out, calls, bundles, updateGraph, cmps, ret,
          fs, cache, made, listing, got, resolved>>

(***************************************************************************)
(* Strings.                                                                *)
(***************************************************************************)
\* ord(c) for the characters the model uses
Ord(c) ==
    CASE c = "+" -> 43 [] c = "-" -> 45 [] c = "." -> 46 [] c = "/" -> 47
      [] c = "0" -> 48 [] c = "1" -> 49 [] c = "2" -> 50 [] c = "3" -> 51
      [] c = "4" -> 52 [] c = "5" -> 53 [] c = "6" -> 54 [] c = "7" -> 55
      [] c = "8" -> 56 [] c = "9" -> 57 [] c = "<" -> 60 [] c = ">" -> 62
      [] c = "_" -> 95
      [] c = "a" -> 97 [] c = "b" -> 98 [] c = "c" -> 99 [] c = "d" -> 100
      [] c = "e" -> 101 [] c = "h" -> 104 [] c = "i" -> 105 [] c = "k" -> 107
      [] c = "l" -> 108
      [] c = "m" -> 109 [] c = "n" -> 110 [] c = "o" -> 111 [] c = "r" -> 114
      [] c = "s" -> 115 [] c = "t" -> 116 [] c = "v" -> 118 [] c = "x" -> 120

\* Python's s < t on str: lexicographic by code point, a proper prefix is smaller
RECURSIVE StrLt(_, _)
StrLt(s, t) ==
    IF t = <<>> THEN FALSE
    ELSE IF s = <<>> THEN TRUE
    ELSE IF Head(s) = Head(t) THEN StrLt(Tail(s), Tail(t))
    ELSE Ord(Head(s)) < Ord(Head(t))

\* s.startswith(p)
StartsWith(s, p) == Len(s) >= Len(p) /\ SubSeq(s, 1, Len(p)) = p

\* x in seq
InSeq(x, seq) == \E i \in 1..Len(seq) : seq[i] = x

(***************************************************************************)
(* CheckResult and its subclasses Ok, Warn, Fail.                          *)
(***************************************************************************)
\* the value of an attribute that was left at None
NoName == <<>>
NoTarget == [id |-> 0, types |-> {}]
NoSuite == "None"

\* CheckResult.__init__ called on the subclass with the given kind
CheckResult(kind, reason, check, origin, suite) ==
    [kind |-> kind, reason |-> reason, check |-> check, origin |-> origin,
     suite |-> suite]

Ok(reason, check, origin, suite) ==
    CheckResult("success", reason, check, origin, suite)

Warn(reason, check, origin, suite) ==
    CheckResult("warning", reason, check, origin, suite)

Fail(reason, check, origin, suite) ==
    CheckResult("error", reason, check, origin, suite)

(***************************************************************************)
(* Rule discovery: get_checks.                                             *)
(***************************************************************************)
\* SUPPORTED_TYPES: (submodule name, resource class)
SUPPORTED_TYPES ==
    << [name |-> "operator", type |-> "Operator"],
       [name |-> "operator_catalogs", type |-> "OperatorCatalogList"],
       [name |-> "bundle", type |-> "Bundle"] >>

Kinds == {SUPPORTED_TYPES[i].name : i \in 1..Len(SUPPORTED_TYPES)}

\* A submodule of the suite as importlib.import_module finds it: `found` is
\* FALSE when the import raises ModuleNotFoundError.
Missing == [found |-> FALSE, members |-> {}]
Module(members) == [found |-> TRUE, members |-> members]

\* names used by the model
check_a == <<"c", "h", "e", "c", "k", "_", "a">>
check_b == <<"c", "h", "e", "c", "k", "_", "b">>
check_c == <<"c", "h", "e", "c", "k", "_", "c">>
non_check_bar == <<"n", "o", "n", "_", "c", "h", "e", "c", "k", "_", "b", "a", "r">>
lambda_name == <<"<", "l", "a", "m", "b", "d", "a", ">">>
check_prefix == <<"c", "h", "e", "c", "k", "_">>

\* A member of a module: the attribute name it is bound to, whether
\* inspect.isfunction holds of the value, and the value's __name__.
Members ==
    { [attr |-> check_a, isfunction |-> TRUE, name |-> check_a],
      [attr |-> check_b, isfunction |-> TRUE, name |-> lambda_name],
      [attr |-> non_check_bar, isfunction |-> TRUE, name |-> non_check_bar],
      [attr |-> check_c, isfunction |-> FALSE, name |-> check_c] }

\* getmembers(module, isfunction): the members passing the predicate, sorted
\* by attribute name
RECURSIVE SortByAttr(_)
SortByAttr(S) ==
    IF S = {} THEN <<>>
    ELSE LET m == CHOOSE x \in S : \A y \in S \ {x} : StrLt(x.attr, y.attr)
         IN  <<m>> \o SortByAttr(S \ {m})

getmembers(module) == SortByAttr({m \in module : m.isfunction})

\* discovery that ignores the exclusion list
RECURSIVE CollectChecksNoSkip(_, _)
CollectChecksNoSkip(members, skip) ==
    IF members = <<>> THEN <<>>
    ELSE LET m == Head(members)
             rest == CollectChecksNoSkip(Tail(members), skip)
         IN  IF StartsWith(m.attr, check_prefix) THEN <<m>> \o rest ELSE rest

\* the body of the loop over getmembers in get_checks
RECURSIVE CollectChecks(_, _)
CollectChecks(members, skip) ==
    IF members = <<>> THEN <<>>
    ELSE LET m == Head(members)
             rest == CollectChecks(Tail(members), skip)
         IN  IF StartsWith(m.attr, check_prefix)
             THEN IF InSeq(m.attr, skip) THEN rest ELSE <<m>> \o rest
             ELSE rest

\* get_checks(suite_name, skip_tests); `mods` is what import_module finds
get_checks(mods, skip) ==
    [k \in Kinds |->
        IF ~mods[k].found THEN <<>>
        ELSE CollectChecks(getmembers(mods[k].members), skip)]

(***************************************************************************)
(* Rule execution: run_check and run_suite.                                *)
(***************************************************************************)
\* isinstance(target, target_type)
IsInstance(target, type) == type \in target.types

\* the allow-list is ignored
NotSelectedIgnoresTests(allow, check) == FALSE

\* `tests and check.__name__ not in tests`: the rule is skipped
NotSelected(allow, check) == allow # <<>> /\ ~InSeq(check.name, allow)

\* stamping that fills in only the fields the rule left unset
StampIfUnset(result, check, target, suite) ==
    [result EXCEPT !.check = IF @ = NoName THEN check.name ELSE @,
                   !.origin = IF @ = NoTarget THEN target ELSE @,
                   !.suite = IF @ = NoSuite THEN suite ELSE @]

\* the three assignments run_check makes to a result before yielding it
Stamp(result, check, target, suite) ==
    [result EXCEPT !.check = check.name, !.origin = target, !.suite = suite]

\* traceback.format_exc() for the exception being handled
format_exc(exc) ==
    <<"Traceback (most recent call last):", exc.type, ": ", exc.msg>>

\* a success result synthesized whether or not the rule yielded anything
AfterLoopAlwaysOk(o, any, check, target, suite) ==
    Append(o, Ok(<<"Success">>, check.name, target, suite))

\* the success result put before everything yielded so far
AfterLoopFirst(o, any, check, target, suite) ==
    IF ~any THEN <<Ok(<<"Success">>, check.name, target, suite)>> \o o
    ELSE o

\* run_check after the rule's iterator is exhausted
AfterLoop(o, any, check, target, suite) ==
    IF ~any THEN Append(o, Ok(<<"Success">>, check.name, target, suite))
    ELSE o

\* the exception swallowed without a result
ExceptClauseSilent(o, check, target, suite, exc) ==
    [out |-> o, pc |-> "loop"]

\* the exception left to propagate out of run_check and run_suite
ExceptClausePropagates(o, check, target, suite, exc) ==
    [out |-> o, pc |-> "propagated"]

\* run_check's `except Exception` clause: what is yielded, and where
\* run_suite goes on
ExceptClause(o, check, target, suite, exc) ==
    [out |-> Append(o, Fail(format_exc(exc), check.name, target, suite)),
     pc |-> "loop"]

\* no Operator is loaded
Absent == "absent"

\* no call on the Operator has returned yet
NoReturn ==
    [op |-> "none", channel |-> "", error |-> "none", bundle |-> 0,
     ref |-> <<>>, all_bundles |-> <<>>, graph |-> {}, value |-> {}]

IdleOperator ==
    /\ bundles = <<>>
    /\ updateGraph = Absent
    /\ cmps = {}
    /\ ret = NoReturn

\* the two kinds of parent object, and the child keys used on each
Parents == {"Repo", "Operator"}

Keys(parent) == IF parent = "Repo" THEN {"hello"}
                ELSE {"0.0.1", "0.0.2", "0.0.1/"}

\* the name of the directory that the parent's path joined with the key
\* resolves to: a trailing separator is dropped
Directory(key) == IF key = "0.0.1/" THEN "0.0.1" ELSE key

\* the entries the parent's directory can have
Dirs(parent) == {Directory(key) : key \in Keys(parent)}

NoCall == [op |-> "none", parent |-> "", key |-> "", object |-> 0,
           new |-> FALSE, raised |-> FALSE, error |-> "none", has |-> FALSE]

\* no Repo or Operator method is called
IdleCache ==
    /\ fs = [p \in Parents |-> [k \in Dirs(p) |-> "absent"]]
    /\ cache = [p \in Parents |-> [k \in Keys(p) |-> 0]]
    /\ made = [p \in Parents |-> 0]
    /\ listing = [p \in Parents |-> <<>>]
    /\ got = NoCall
    /\ resolved = {}

\* ---- the inputs the engine is run on ----
\* results as a rule creates them: check_a sets only severity and reason, the
\* other rules yield results whose check, origin and suite already hold
\* other values
stale_name == <<"o", "l", "d">>
StaleTarget == [id |-> 9, types |-> {"Repo"}]
PartialResults(check) ==
    IF check.attr = check_a
    THEN { Warn(<<"foo">>, NoName, NoTarget, NoSuite) }
    ELSE { Fail(<<"foo">>, stale_name, StaleTarget, "stale.suite") }

\* what a rule raises: instances of Exception
Exceptions == { [type |-> "Exception", msg |-> "bar"] }

\* the classes a resource may be an instance of
TargetTypes == { {"Operator"}, {"OperatorCatalogList"}, {"Bundle"}, {"Repo"} }

\* a resource that is an instance of two supported classes
PolymorphicTypes == { {"Operator", "Bundle"} }

RECURSIVE SeqsUpTo(_, _)
SeqsUpTo(S, n) ==
    IF n = 0 THEN {<<>>}
    ELSE LET shorter == SeqsUpTo(S, n - 1)
         IN  shorter \cup {Append(s, x) : s \in shorter, x \in S}

\* the i-th target of a list is the resource with identity i; a polymorphic
\* resource is run on its own
TargetLists ==
    { [i \in 1..Len(ts) |-> [id |-> i, types |-> ts[i]]] :
        ts \in SeqsUpTo(TargetTypes, MaxTargets) \cup {<<p>> : p \in PolymorphicTypes} }

\* suites the engine is run on
EngineSuites ==
    { [k \in Kinds |->
         CASE k = "operator" -> Module({m \in Members : m.attr # check_c})
           [] k = "operator_catalogs" -> Module({m \in Members : m.attr = check_b})
           [] k = "bundle" -> Module({m \in Members : m.attr = check_a})] }

InitEngine ==
    /\ modules \in EngineSuites
    /\ suite_name \in {"operator_repo.checks"}
    /\ skip_tests \in {<<>>}
    /\ tests \in {<<>>, <<check_a>>}
    /\ targets \in TargetLists
    /\ checks = [k \in Kinds |-> <<>>]
    /\ pc = "start"
    /\ ti = 1 /\ ki = 1 /\ ci = 1
    /\ any_results = FALSE
    /\ out = <<>>
    /\ calls = <<>>
    /\ IdleOperator
    /\ IdleCache

\* the rule, target and kind the loops of run_suite are at
CurKind == SUPPORTED_TYPES[ki].name
CurType == SUPPORTED_TYPES[ki].type
CurTarget == targets[ti]
CurCheck == checks[CurKind][ci]
CurCall == calls[Len(calls)]

\* results yielded by rules so far in this run
RECURSIVE SumYielded(_)
SumYielded(cs) ==
    IF cs = <<>> THEN 0 ELSE Len(Head(cs).yielded) + SumYielded(Tail(cs))

TotalYielded == SumYielded(calls)

\* run_suite, line 173: checks = get_checks(suite_name, skip_tests=skip_tests)
RunSuite ==
    /\ pc = "start"
    /\ checks' = get_checks(modules, skip_tests)
    /\ pc' = "loop"
    /\ UNCHANGED <<modules, suite_name, skip_tests, tests, targets, ti, ki, ci,
                   any_results, out, calls>>
    /\ UNCHANGED <<operatorVars, cacheVars>>

\* `for target in targets` is exhausted: the generator returns
SuiteDone ==
    /\ pc = "loop"
    /\ ti > Len(targets)
    /\ pc' = "done"
    /\ UNCHANGED <<modules, suite_name, skip_tests, tests, targets, checks,
                   ti, ki, ci, any_results, out, calls>>
    /\ UNCHANGED <<operatorVars, cacheVars>>

\* `for target_type_name, target_type in SUPPORTED_TYPES` is exhausted
NextTarget ==
    /\ pc = "loop"
    /\ ti <= Len(targets)
    /\ ki > Len(SUPPORTED_TYPES)
    /\ ti' = ti + 1 /\ ki' = 1 /\ ci' = 1
    /\ UNCHANGED <<modules, suite_name, skip_tests, tests, targets, checks,
                   pc, any_results, out, calls>>
    /\ UNCHANGED <<operatorVars, cacheVars>>

\* `if isinstance(target, target_type)` is false
NotInstance ==
    /\ pc = "loop"
    /\ ti <= Len(targets)
    /\ ki <= Len(SUPPORTED_TYPES)
    /\ ~IsInstance(CurTarget, CurType)
    /\ ki' = ki + 1 /\ ci' = 1
    /\ UNCHANGED <<modules, suite_name, skip_tests, tests, targets, checks,
                   pc, ti, any_results, out, calls>>
    /\ UNCHANGED <<operatorVars, cacheVars>>

\* `for check in checks.get(target_type_name, [])` is exhausted
ChecksExhausted ==
    /\ pc = "loop"
    /\ ti <= Len(targets)
    /\ ki <= Len(SUPPORTED_TYPES)
    /\ IsInstance(CurTarget, CurType)
    /\ ci > Len(checks[CurKind])
    /\ ki' = ki + 1 /\ ci' = 1
    /\ UNCHANGED <<modules, suite_name, skip_tests, tests, targets, checks,
                   pc, ti, any_results, out, calls>>
    /\ UNCHANGED <<operatorVars, cacheVars>>

\* `if tests and check.__name__ not in tests: continue`
SkipCheck ==
    /\ pc = "loop"
    /\ ti <= Len(targets)
    /\ ki <= Len(SUPPORTED_TYPES)
    /\ IsInstance(CurTarget, CurType)
    /\ ci <= Len(checks[CurKind])
    /\ NotSelected(tests, CurCheck)
    /\ ci' = ci + 1
    /\ UNCHANGED <<modules, suite_name, skip_tests, tests, targets, checks,
                   pc, ti, ki, any_results, out, calls>>
    /\ UNCHANGED <<operatorVars, cacheVars>>

\* `yield from run_check(check, target, suite_name)`: run_check starts
RunCheck ==
    /\ pc = "loop"
    /\ ti <= Len(targets)
    /\ ki <= Len(SUPPORTED_TYPES)
    /\ IsInstance(CurTarget, CurType)
    /\ ci <= Len(checks[CurKind])
    /\ ~NotSelected(tests, CurCheck)
    /\ pc' = "run"
    /\ any_results' = FALSE
    /\ calls' = Append(calls, [ti |-> ti, ki |-> ki, ci |-> ci,
                                check |-> CurCheck, target |-> CurTarget,
                                first |-> Len(out) + 1, yielded |-> <<>>,
                                end |-> "running", exc |-> <<>>])
    /\ UNCHANGED <<modules, suite_name, skip_tests, tests, targets, checks,
                   ti, ki, ci, out>>
    /\ UNCHANGED <<operatorVars, cacheVars>>

\* the rule yields one more result: run_check stamps it and yields it
RuleYields ==
    /\ pc = "run"
    /\ TotalYielded < MaxYields
    /\ \E result \in PartialResults(CurCheck) :
          /\ out' = Append(out, Stamp(result, CurCheck, CurTarget, suite_name))
          /\ calls' = [calls EXCEPT ![Len(calls)].yielded = Append(@, result)]
    /\ any_results' = TRUE
    /\ UNCHANGED <<modules, suite_name, skip_tests, tests, targets, checks,
                   pc, ti, ki, ci>>
    /\ UNCHANGED <<operatorVars, cacheVars>>

\* the rule's iterator ends
RuleReturns ==
    /\ pc = "run"
    /\ out' = AfterLoop(out, any_results, CurCheck, CurTarget, suite_name)
    /\ pc' = "loop"
    /\ ci' = ci + 1
    /\ calls' = [calls EXCEPT ![Len(calls)].end = "return"]
    /\ UNCHANGED <<modules, suite_name, skip_tests, tests, targets, checks,
                   ti, ki, any_results>>
    /\ UNCHANGED <<operatorVars, cacheVars>>

\* an exception is raised inside run_check's try block: by the rule when it
\* is called or resumed, or by iterating or stamping what the rule returned
RuleRaises(exc) ==
    /\ pc = "run"
    /\ LET r == ExceptClause(out, CurCheck, CurTarget, suite_name, exc)
       IN  /\ out' = r.out
           /\ pc' = r.pc
    /\ ci' = ci + 1
    /\ calls' = [calls EXCEPT ![Len(calls)].end = "raise",
                              ![Len(calls)].exc = <<exc>>]
    /\ UNCHANGED <<modules, suite_name, skip_tests, tests, targets, checks,
                   ti, ki, any_results>>
    /\ UNCHANGED <<operatorVars, cacheVars>>

NextEngine ==
    \/ RunSuite
    \/ SuiteDone
    \/ NextTarget
    \/ NotInstance
    \/ ChecksExhausted
    \/ SkipCheck
    \/ RunCheck
    \/ RuleYields
    \/ RuleReturns
    \/ \E exc \in Exceptions : RuleRaises(exc)

Init == InitEngine

Next == NextEngine

Spec == Init /\ [][Next]_vars

\* run_suite is pulled to exhaustion by its caller and the rules it runs
\* are finite: every enabled step is eventually taken
FairSpec == Init /\ [][Next]_vars /\ WF_vars(Next)

(***************************************************************************)
(* Rule discovery on its own: get_checks as the CLI calls it to list the   *)
(* rules of a suite.                                                       *)
(***************************************************************************)
AllSuites == [Kinds -> {Missing} \cup {Module(ms) : ms \in SUBSET Members}]

SkipChoices == {<<>>, <<check_a>>, <<check_b, non_check_bar>>}

InitDiscover ==
    /\ modules \in AllSuites
    /\ suite_name \in {"operator_repo.checks"}
    /\ skip_tests \in SkipChoices
    /\ tests = <<>>
    /\ targets = <<>>
    /\ checks = [k \in Kinds |-> <<>>]
    /\ pc = "start"
    /\ ti = 1 /\ ki = 1 /\ ci = 1
    /\ any_results = FALSE
    /\ out = <<>>
    /\ calls = <<>>
    /\ IdleOperator
    /\ IdleCache

\* result = get_checks(suite_name, skip_tests)
GetChecks ==
    /\ pc = "start"
    /\ checks' = get_checks(modules, skip_tests)
    /\ pc' = "discovered"
    /\ UNCHANGED <<modules, suite_name, skip_tests, tests, targets, ti, ki, ci,
                   any_results, out, calls>>
    /\ UNCHANGED <<operatorVars, cacheVars>>

NextDiscover == GetChecks

SpecDiscover == InitDiscover /\ [][NextDiscover]_vars

(***************************************************************************)
(* Properties of the check engine.                                         *)
(***************************************************************************)
\* index in `out` of the last result of the j-th run_check invocation
CallEnd(j) == IF j < Len(calls) THEN calls[j + 1].first - 1 ELSE Len(out)

\* the results the j-th run_check invocation yielded
Segment(j) == SubSeq(out, calls[j].first, CallEnd(j))

\* what a result the rule created must look like when it is yielded
Stamped(r, c) ==
    [kind |-> r.kind, reason |-> r.reason, check |-> c.check.name,
     origin |-> c.target, suite |-> suite_name]

\* the rules discovery finds for the suite
Discovered == get_checks(modules, skip_tests)

\* rule c of kind k, out of the discovered rules d, applies to target t
Applicable(d, t, k, c) ==
    /\ SUPPORTED_TYPES[k].type \in targets[t].types
    /\ tests = <<>> \/ \E n \in 1..Len(tests) :
                          tests[n] = d[SUPPORTED_TYPES[k].name][c].name

\* every (target, kind, rule) triple of the run
Pairs(d) ==
    { <<t, k, c>> \in (1..Len(targets)) \X (1..Len(SUPPORTED_TYPES)) \X (1..Cardinality(Members)) :
        c <= Len(d[SUPPORTED_TYPES[k].name]) }

\* C1: run_check never propagates an exception raised by the rule: a rule
\* that raises after yielding k >= 0 results gives exactly the k stamped
\* results followed by one error result carrying the diagnostic text, and
\* nothing after it.
C1_RaiseGivesOneFail ==
    /\ pc # "propagated"
    /\ \A j \in 1..Len(calls) :
          calls[j].end = "raise" =>
            LET c == calls[j]
                k == Len(c.yielded)
                seg == Segment(j)
            IN  /\ Len(seg) = k + 1
                /\ \A i \in 1..k : seg[i] = Stamped(c.yielded[i], c)
                /\ seg[k + 1] = [kind |-> "error",
                                 reason |-> format_exc(c.exc[1]),
                                 check |-> c.check.name, origin |-> c.target,
                                 suite |-> suite_name]

\* a rule raised after yielding, and another raised at once
C1_Witness ==
    /\ \E j \in 1..Len(calls) : calls[j].end = "raise" /\ Len(calls[j].yielded) = MaxYields
    /\ \E j \in 1..Len(calls) : calls[j].end = "raise" /\ calls[j].yielded = <<>>

\* C2: a rule that ends normally without yielding gets exactly one success
\* result; a rule that yielded at least one result gets no synthesized
\* success result.
C2_SuccessIffNothingYielded ==
    \A j \in 1..Len(calls) :
        LET c == calls[j]
            k == Len(c.yielded)
            seg == Segment(j)
        IN  /\ (c.end = "return" /\ k = 0) =>
                  seg = << [kind |-> "success", reason |-> <<"Success">>,
                            check |-> c.check.name, origin |-> c.target,
                            suite |-> suite_name] >>
            /\ (c.end = "return" /\ k >= 1) =>
                  /\ Len(seg) = k
                  /\ \A i \in 1..k : seg[i] = Stamped(c.yielded[i], c)
            /\ (c.end # "running" /\ k >= 1) =>
                  \A i \in (k + 1)..Len(seg) : seg[i].kind # "success"

\* one rule returned without yielding and one returned after yielding
C2_Witness ==
    /\ \E j \in 1..Len(calls) : calls[j].end = "return" /\ calls[j].yielded = <<>>
    /\ \E j \in 1..Len(calls) : calls[j].end = "return" /\ calls[j].yielded # <<>>

\* every applicable (rule, resource) pair has at least one result
AllPairsAnswered ==
    LET d == Discovered
    IN  \A p \in Pairs(d) :
            Applicable(d, p[1], p[2], p[3]) =>
                \E j \in 1..Len(calls) :
                    /\ calls[j].ti = p[1] /\ calls[j].ki = p[2] /\ calls[j].ci = p[3]
                    /\ Len(Segment(j)) >= 1

\* C3: a run of run_suite always completes and has at least one result for
\* every applicable (rule, resource) pair, whichever rules raise.
C3_SuiteCompletes ==
    /\ <>(pc = "done")
    /\ [](pc = "done" => AllPairsAnswered)

\* a run that completed although a rule raised before other rules ran
C3_Witness ==
    /\ pc = "done"
    /\ \E j \in 1..Len(calls) : calls[j].end = "raise" /\ j < Len(calls)
    /\ \E j \in 1..Len(calls) : calls[j].end = "raise" /\ calls[j].ti < Len(targets)

\* C4: every yielded result carries the name of the rule that produced it,
\* the resource it was run against and the suite name, whatever the rule had
\* put in those fields.
C4_ResultsAreStamped ==
    \A j \in 1..Len(calls) :
        \A i \in calls[j].first..CallEnd(j) :
            /\ out[i].check = calls[j].check.name
            /\ out[i].origin = calls[j].target
            /\ out[i].suite = suite_name

\* a rule yielded a result whose fields already held other values
C4_Witness ==
    \E j \in 1..Len(calls) :
        \E i \in 1..Len(calls[j].yielded) :
            /\ calls[j].yielded[i].check = stale_name
            /\ calls[j].yielded[i].origin = StaleTarget
            /\ out[calls[j].first + i - 1].kind = calls[j].yielded[i].kind

\* C5: run_suite yields results only for applicable pairs: a rule of a kind
\* runs only on resources of that kind, and with a non-empty allow-list only
\* the rules named in it run.
C5_OnlyApplicablePairs ==
    LET d == Discovered
    IN  /\ \A j \in 1..Len(calls) :
              /\ <<calls[j].ti, calls[j].ki, calls[j].ci>> \in Pairs(d)
              /\ Applicable(d, calls[j].ti, calls[j].ki, calls[j].ci)
              /\ calls[j].check = d[SUPPORTED_TYPES[calls[j].ki].name][calls[j].ci]
              /\ calls[j].target = targets[calls[j].ti]
        /\ \A i \in 1..Len(out) :
              \E j \in 1..Len(calls) : calls[j].first <= i /\ i <= CallEnd(j)

\* a finished run with an allow-list that left out a discovered rule of the
\* target's kind, and with a rule of a kind the target is not
C5_Witness ==
    /\ pc = "done"
    /\ out # <<>>
    /\ tests # <<>>
    /\ \E p \in Pairs(Discovered) :
          /\ SUPPORTED_TYPES[p[2]].type \in targets[p[1]].types
          /\ ~Applicable(Discovered, p[1], p[2], p[3])
    /\ \E p \in Pairs(Discovered) :
          SUPPORTED_TYPES[p[2]].type \notin targets[p[1]].types

\* C6: get_checks returns an entry for each of the three kinds; the entry
\* holds exactly the functions of the kind's submodule whose name starts
\* with "check_" and is not in skip_tests, and is empty when the submodule
\* does not exist.
C6_GetChecks ==
    pc = "discovered" =>
        /\ DOMAIN checks = {"operator", "operator_catalogs", "bundle"}
        /\ \A k \in DOMAIN checks :
              /\ {checks[k][i] : i \in 1..Len(checks[k])} =
                    { m \in modules[k].members :
                        /\ m.isfunction
                        /\ Len(m.attr) >= 6
                        /\ SubSeq(m.attr, 1, 6) = <<"c", "h", "e", "c", "k", "_">>
                        /\ \A n \in 1..Len(skip_tests) : skip_tests[n] # m.attr }
              /\ \A a, b \in 1..Len(checks[k]) : a # b => checks[k][a] # checks[k][b]
              /\ ~modules[k].found => checks[k] = <<>>

\* discovery ran on a suite with a missing submodule, and with a submodule
\* holding a skipped rule, a rule that is kept and a function that is no rule
C6_Witness ==
    /\ pc = "discovered"
    /\ \E k \in Kinds : ~modules[k].found
    /\ \E k \in Kinds :
          /\ \E m \in modules[k].members : \E n \in 1..Len(skip_tests) : skip_tests[n] = m.attr
          /\ \E m \in modules[k].members : ~m.isfunction
          /\ \E m \in modules[k].members : m.attr = non_check_bar
          /\ checks[k] # <<>>


(***************************************************************************)
(* Semantic versions: semver.Version.parse and the comparison of two       *)
(* Version objects, as Bundle.__eq__ and Bundle.__lt__ use them.           *)
(***************************************************************************)
Digits == {"0", "1", "2", "3", "4", "5", "6", "7", "8", "9"}

Letters == {"a", "b", "c", "d", "e", "h", "k", "l", "m", "n", "o", "r", "t", "v", "x"}

\* int(c) for a digit
DigitVal(c) == Ord(c) - Ord("0")

\* int(s) for a string of digits
RECURSIVE NumVal(_)
NumVal(s) ==
    IF s = <<>> THEN 0
    ELSE NumVal(SubSeq(s, 1, Len(s) - 1)) * 10 + DigitVal(s[Len(s)])

\* s.find(c) + 1: the position of the first c in s, 0 when there is none
RECURSIVE IndexOf(_, _)
IndexOf(s, c) ==
    IF s = <<>> THEN 0
    ELSE IF Head(s) = c THEN 1
    ELSE LET i == IndexOf(Tail(s), c) IN IF i = 0 THEN 0 ELSE i + 1

\* s.split(sep)
RECURSIVE Split(_, _)
Split(s, sep) ==
    LET i == IndexOf(s, sep)
    IN  IF i = 0 THEN <<s>>
        ELSE <<SubSeq(s, 1, i - 1)>> \o Split(SubSeq(s, i + 1, Len(s)), sep)

\* s.lstrip("v"): every leading v is removed
RECURSIVE LStripV(_)
LStripV(s) == IF s # <<>> /\ Head(s) = "v" THEN LStripV(Tail(s)) ELSE s

AllDigits(s) == \A i \in 1..Len(s) : s[i] \in Digits

\* 0|[1-9]\d*
IsNumericId(s) == s # <<>> /\ AllDigits(s) /\ (Len(s) = 1 \/ s[1] # "0")

\* [0-9a-zA-Z-]+
IsBuildId(s) ==
    s # <<>> /\ \A i \in 1..Len(s) : s[i] \in Digits \cup Letters \cup {"-"}

\* 0|[1-9]\d*|\d*[a-zA-Z-][0-9a-zA-Z-]*
IsPrereleaseId(s) == IsBuildId(s) /\ (AllDigits(s) => IsNumericId(s))

\* Version.parse(s): `ok` is FALSE when it raises ValueError
VersionParse(s) ==
    LET plus == IndexOf(s, "+")
        main == IF plus = 0 THEN s ELSE SubSeq(s, 1, plus - 1)
        build == IF plus = 0 THEN <<>> ELSE SubSeq(s, plus + 1, Len(s))
        dash == IndexOf(main, "-")
        core == IF dash = 0 THEN main ELSE SubSeq(main, 1, dash - 1)
        pre == IF dash = 0 THEN <<>> ELSE SubSeq(main, dash + 1, Len(main))
        nums == Split(core, ".")
        preIds == Split(pre, ".")
        buildIds == Split(build, ".")
        ok == /\ Len(nums) = 3
              /\ \A i \in 1..Len(nums) : IsNumericId(nums[i])
              /\ dash # 0 => \A i \in 1..Len(preIds) : IsPrereleaseId(preIds[i])
              /\ plus # 0 => \A i \in 1..Len(buildIds) : IsBuildId(buildIds[i])
    IN  IF ok
        THEN [ok |-> TRUE, major |-> NumVal(nums[1]), minor |-> NumVal(nums[2]),
              patch |-> NumVal(nums[3]), prerelease |-> pre]
        ELSE [ok |-> FALSE, major |-> 0, minor |-> 0, patch |-> 0,
              prerelease |-> <<>>]

\* _cmp(a, b) on integers
IntCmp(a, b) == IF a < b THEN 0 - 1 ELSE IF a > b THEN 1 ELSE 0

\* _cmp(a, b) on strings
StrCmp(a, b) == IF StrLt(a, b) THEN 0 - 1 ELSE IF StrLt(b, a) THEN 1 ELSE 0

\* cmp_prerelease_tag(a, b): identifiers made of digits were converted to int
TagCmp(a, b) ==
    IF AllDigits(a) /\ a # <<>> /\ AllDigits(b) /\ b # <<>>
    THEN IntCmp(NumVal(a), NumVal(b))
    ELSE IF AllDigits(a) /\ a # <<>> THEN 0 - 1
    ELSE IF AllDigits(b) /\ b # <<>> THEN 1
    ELSE StrCmp(a, b)

\* the loop of _nat_cmp over zip(a_parts, b_parts)
RECURSIVE ZipCmp(_, _)
ZipCmp(as, bs) ==
    IF as = <<>> \/ bs = <<>> THEN 0
    ELSE LET c == TagCmp(Head(as), Head(bs))
         IN  IF c # 0 THEN c ELSE ZipCmp(Tail(as), Tail(bs))

\* _nat_cmp(a, b) on two prerelease strings ("" for none)
NatCmp(a, b) ==
    LET c == ZipCmp(Split(a, "."), Split(b, "."))
    IN  IF c # 0 THEN c ELSE IntCmp(Len(a), Len(b))

\* Version.compare(other)
VersionCompare(v, w) ==
    LET c1 == IntCmp(v.major, w.major)
        c2 == IntCmp(v.minor, w.minor)
        c3 == IntCmp(v.patch, w.patch)
        x == IF c1 # 0 THEN c1 ELSE IF c2 # 0 THEN c2 ELSE c3
        rccmp == NatCmp(v.prerelease, w.prerelease)
    IN  IF x # 0 THEN x
        ELSE IF rccmp = 0 THEN 0
        ELSE IF v.prerelease = <<>> THEN 1
        ELSE IF w.prerelease = <<>> THEN 0 - 1
        ELSE rccmp

(***************************************************************************)
(* Bundle: the fields read from the CSV, equality, ordering and hashing.   *)
(***************************************************************************)
\* csv_full_name.split(".", 1)
SplitFirst(s) ==
    LET i == IndexOf(s, ".")
    IN  IF i = 0 THEN <<s>>
        ELSE <<SubSeq(s, 1, i - 1), SubSeq(s, i + 1, Len(s))>>

\* Bundle.csv_full_name; `ok` is FALSE when it raises InvalidBundleException
csv_full_name(b) ==
    LET parts == SplitFirst(b.csv)
    IN  IF Len(parts) = 2
        THEN [ok |-> TRUE, name |-> parts[1], version |-> LStripV(parts[2])]
        ELSE [ok |-> FALSE, name |-> <<>>, version |-> <<>>]

csv_operator_name(b) == csv_full_name(b).name

csv_operator_version(b) == csv_full_name(b).version

\* the two versions compared as strings, whatever they look like
BundleEqLexical(a, b) ==
    /\ csv_operator_name(a) = csv_operator_name(b)
    /\ csv_operator_version(a) = csv_operator_version(b)

\* Bundle.__eq__
BundleEq(a, b) ==
    IF csv_operator_name(a) # csv_operator_name(b) THEN FALSE
    ELSE LET v == VersionParse(LStripV(csv_operator_version(a)))
             w == VersionParse(LStripV(csv_operator_version(b)))
         IN  IF v.ok /\ w.ok THEN VersionCompare(v, w) = 0
             ELSE csv_operator_version(a) = csv_operator_version(b)

\* the two versions compared as strings, whatever they look like
BundleLtLexical(a, b) ==
    IF csv_operator_name(a) # csv_operator_name(b)
    THEN StrLt(csv_operator_name(a), csv_operator_name(b))
    ELSE StrLt(csv_operator_version(a), csv_operator_version(b))

\* Bundle.__lt__
BundleLt(a, b) ==
    IF csv_operator_name(a) # csv_operator_name(b)
    THEN StrLt(csv_operator_name(a), csv_operator_name(b))
    ELSE LET v == VersionParse(LStripV(csv_operator_version(a)))
             w == VersionParse(LStripV(csv_operator_version(b)))
         IN  IF v.ok /\ w.ok THEN VersionCompare(v, w) < 0
             ELSE StrLt(csv_operator_version(a), csv_operator_version(b))


(***************************************************************************)
(* Comparing the bundles of one operator directory with `<` and `==`.      *)
(***************************************************************************)
hello == <<"h", "e", "l", "l", "o">>

other == <<"o", "t", "h", "e", "r">>

V_1_0_2 == <<"1", ".", "0", ".", "2">>

V_1_0_10 == <<"1", ".", "0", ".", "1", "0">>

V_1_0_1x == <<"1", ".", "0", ".", "1", "x">>

V_v1_0_2 == <<"v", "1", ".", "0", ".", "2">>

V_1_0_2_a_2 == <<"1", ".", "0", ".", "2", "-", "a", ".", "2">>

V_1_0_2_a_10 == <<"1", ".", "0", ".", "2", "-", "a", ".", "1", "0">>

V_1_0_2_b == <<"1", ".", "0", ".", "2", "+", "b">>

\* .metadata.name of a CSV: <name>.<version>
CsvName(name, version) == name \o <<".">> \o version

\* a bundle directory: the CSV's .metadata.name, spec.replaces and
\* spec.skips, and the channels annotation; no default channel annotation
Bundle(csv, channels, replaces, skips) ==
    [csv |-> csv, channels |-> channels, replaces |-> replaces, skips |-> skips,
     default_channel |-> {}]

\* the bundle with the default channel annotation
WithDefault(bundle, channel) == [bundle EXCEPT !.default_channel = {channel}]

\* .metadata.name values of the bundles compared; the last has no "."
OrderCsvNames ==
    <<CsvName(hello, V_v1_0_2), CsvName(hello, V_1_0_10),
      CsvName(hello, V_1_0_1x), CsvName(hello, V_1_0_2_a_2),
      CsvName(hello, V_1_0_2_a_10), CsvName(hello, V_1_0_2_b),
      CsvName(other, V_1_0_2), hello>>

Operands == {1, 2, 3}

\* no suite is run
IdleEngine ==
    /\ modules = [k \in Kinds |-> Missing]
    /\ suite_name = "operator_repo.checks"
    /\ skip_tests = <<>>
    /\ tests = <<>>
    /\ targets = <<>>
    /\ checks = [k \in Kinds |-> <<>>]
    /\ pc = "idle"
    /\ ti = 1
    /\ ki = 1
    /\ ci = 1
    /\ any_results = FALSE
    /\ out = <<>>
    /\ calls = <<>>

\* three bundle directories, listed in the order of OrderCsvNames
InitOrder ==
    /\ \E pick \in [Operands -> 1..Len(OrderCsvNames)] :
          /\ \A i, j \in Operands : i <= j => pick[i] <= pick[j]
          /\ bundles = [i \in Operands |->
                            Bundle(OrderCsvNames[pick[i]], {}, {}, {})]
    /\ updateGraph = Absent
    /\ cmps = {}
    /\ ret = NoReturn
    /\ IdleEngine
    /\ IdleCache

\* what `bundles[i] < bundles[j]` and `bundles[i] == bundles[j]` give: two
\* values, or InvalidBundleException out of csv_full_name
Compared(i, j) ==
    LET raised == ~csv_full_name(bundles[i]).ok \/ ~csv_full_name(bundles[j]).ok
    IN  [a |-> i, b |-> j, raised |-> raised,
         lt |-> IF raised THEN FALSE ELSE BundleLt(bundles[i], bundles[j]),
         eq |-> IF raised THEN FALSE ELSE BundleEq(bundles[i], bundles[j])]

\* bundles[i] and bundles[j] are compared with `<` and with `==`
Compare(i, j) ==
    /\ pc = "idle"
    /\ Cardinality(cmps) < MaxCompares
    /\ cmps' = cmps \cup {Compared(i, j)}
    /\ UNCHANGED <<bundles, updateGraph, ret>>
    /\ UNCHANGED <<engineVars, cacheVars>>

NextOrder == \E i, j \in Operands : Compare(i, j)

SpecOrder == InitOrder /\ [][NextOrder]_vars


(***************************************************************************)
(* Operator.channel_bundles and Operator.update_graph.                     *)
(***************************************************************************)
Channels == {"beta", "stable"}

\* {x for x in self.all_bundles() if channel in x.channels}: the version
\* directories of the channel's bundles
ChannelSet(b, channel) == {i \in DOMAIN b : channel \in b[i].channels}

\* the orders in which a set can be iterated
IterationOrders(S) ==
    {o \in [1..Cardinality(S) -> S] :
        \A i, j \in 1..Cardinality(S) : i # j => o[i] # o[j]}

\* the outcomes of x < y for the bundles in the directories S
LessThan(b, S) == {e \in S \X S : BundleLt(b[e[1]], b[e[2]])}

\* x < y, looked up in those outcomes
DirLt(lt, i, j) == <<i, j>> \in lt

Reverse(s) == [i \in 1..Len(s) |-> s[Len(s) + 1 - i]]

\* list.sort: the end of the run that starts the list, descending or not
RECURSIVE RunEnd(_, _, _, _)
RunEnd(lt, a, k, descending) ==
    IF k < Len(a) /\ (DirLt(lt, a[k + 1], a[k]) = descending)
    THEN RunEnd(lt, a, k + 1, descending)
    ELSE k

\* list.sort: where the pivot goes among a[l..r-1]
RECURSIVE BinarySearch(_, _, _, _, _)
BinarySearch(lt, a, pivot, l, r) ==
    IF l < r
    THEN LET p == l + ((r - l) \div 2)
         IN  IF DirLt(lt, pivot, a[p])
             THEN BinarySearch(lt, a, pivot, l, p)
             ELSE BinarySearch(lt, a, pivot, p + 1, r)
    ELSE l

\* list.sort: binary insertion of a[start..] into the sorted a[1..start-1]
RECURSIVE BinarySort(_, _, _)
BinarySort(lt, a, start) ==
    IF start > Len(a) THEN a
    ELSE LET pivot == a[start]
             pos == BinarySearch(lt, a, pivot, 1, start)
         IN  BinarySort(lt,
                        SubSeq(a, 1, pos - 1) \o <<pivot>>
                            \o SubSeq(a, pos, start - 1)
                            \o SubSeq(a, start + 1, Len(a)),
                        start + 1)

\* sorted(a), for a list shorter than a merge run: only `<` is used
PySorted(lt, a) ==
    IF Len(a) <= 1 THEN a
    ELSE LET descending == DirLt(lt, a[2], a[1])
             k == RunEnd(lt, a, 2, descending)
             run == IF descending
                    THEN Reverse(SubSeq(a, 1, k)) \o SubSeq(a, k + 1, Len(a))
                    ELSE a
         IN  BinarySort(lt, run, k + 1)

\* Operator.channel_bundles(channel): the sorted list, for every order in
\* which the set can be iterated; a comparison raises
\* InvalidBundleException when a CSV name is invalid
channel_bundles(b, channel) ==
    LET S == ChannelSet(b, channel)
        lt == LessThan(b, S)
    IN  IF Cardinality(S) >= 2 /\ \E i \in S : ~csv_full_name(b[i]).ok
        THEN {[raised |-> TRUE, list |-> <<>>]}
        ELSE {[raised |-> FALSE, list |-> PySorted(lt, order)] :
                 order \in IterationOrders(S)}

Range(s) == {s[i] : i \in 1..Len(s)}

\* update_graph raises: the exception, and the bundle and the reference
\* its message names (0 and "" when it names none)
Raised(channel, error, bundle, ref) ==
    [op |-> "update_graph", channel |-> channel, error |-> error,
     bundle |-> bundle, ref |-> ref, all_bundles |-> <<>>, graph |-> {},
     value |-> {}]

Returned(channel, list, graph) ==
    [op |-> "update_graph", channel |-> channel, error |-> "none",
     bundle |-> 0, ref |-> <<>>, all_bundles |-> list, graph |-> graph,
     value |-> {}]

\* every bundle upgrades to every later one
SemverEdgesToAllLater(list) ==
    {e \in Range(list) \X Range(list) :
        \E i, j \in 1..Len(list) : i < j /\ e = <<list[i], list[j]>>}

\* {x: {y} for x, y in zip(all_bundles, all_bundles[1:])}, as the set of
\* its edges <<x, y>>
SemverEdges(list) == {<<list[i], list[i + 1]>> : i \in 1..(Len(list) - 1)}

\* spec.skips is not read
PreviousReplacesOnly(bundle) == bundle.replaces

\* set(skips) | {replaces}, None left out
Previous(bundle) == bundle.skips \cup bundle.replaces

InvalidField == "ValueError: invalid 'replaces' field"
DifferentOperator == "ValueError: replaces a bundle from a different operator"
DifferentNames == "ValueError: bundles with different operator names"
Unsupported == "NotImplementedError: unsupported updateGraph value"
InvalidBundle == "InvalidBundleException: invalid .metadata.name"

\* every reference is taken as one of the bundle's own operator
ReferenceErrorNameIgnored(bundle, ref) ==
    IF IndexOf(ref, ".") = 0 THEN InvalidField ELSE "none"

\* one message for both faults
ReferenceErrorOneKind(bundle, ref) ==
    IF IndexOf(ref, ".") = 0 THEN DifferentOperator
    ELSE IF SplitFirst(ref)[1] # csv_operator_name(bundle) THEN DifferentOperator
    ELSE "none"

\* the ValueError that _replaces_graph raises on this reference of this
\* bundle, "none" when it raises none
ReferenceError(bundle, ref) ==
    IF IndexOf(ref, ".") = 0 THEN InvalidField
    ELSE IF SplitFirst(ref)[1] # csv_operator_name(bundle) THEN DifferentOperator
    ELSE "none"

\* the key a reference with a "." is looked up with in version_to_bundle
replaced_bundle_version(ref) == LStripV(SplitFirst(ref)[2])

\* the values version_to_bundle can have: with two bundles of one version
\* the one iterated last stays
VersionToBundle(b, S) ==
    {vb \in [{csv_operator_version(b[i]) : i \in S} -> S] :
        \A v \in DOMAIN vb : csv_operator_version(b[vb[v]]) = v}

\* a reference to a version no bundle has resolves to some bundle
ResolvedOrAny(vb, ref) ==
    IF LStripV(SplitFirst(ref)[2]) \in DOMAIN vb
    THEN {vb[LStripV(SplitFirst(ref)[2])]}
    ELSE {vb[v] : v \in DOMAIN vb}

\* version_to_bundle[replaced_bundle_version.lstrip("v")], nothing on
\* KeyError
Resolved(vb, ref) ==
    IF replaced_bundle_version(ref) \in DOMAIN vb
    THEN {vb[replaced_bundle_version(ref)]}
    ELSE {}

\* Operator._replaces_graph(channel, bundles): what it can return or raise;
\* it raises on the first faulty reference it iterates over
replaces_graph(b, channel, list) ==
    LET S == Range(list)
        faulty == {f \in UNION {{[bundle |-> i, ref |-> r] : r \in Previous(b[i])}
                                   : i \in S} :
                      ReferenceError(b[f.bundle], f.ref) # "none"}
    IN  IF faulty # {}
        THEN {Raised(channel, ReferenceError(b[f.bundle], f.ref), f.bundle, f.ref)
                 : f \in faulty}
        ELSE {Returned(channel, list,
                 {e \in S \X S :
                     \E r \in Previous(b[e[2]]) :
                         /\ e[1] \in Resolved(vb, r)
                         /\ channel \in b[e[2]].channels
                         /\ channel \in b[e[1]].channels})
                 : vb \in VersionToBundle(b, S)}

\* the strategy is semver-mode unless configured
UpdateStrategyDefaultSemver(config) ==
    IF config = Absent THEN "semver-mode" ELSE config

\* self.config.get("updateGraph", "replaces-mode")
UpdateStrategy(config) == IF config = Absent THEN "replaces-mode" ELSE config

\* the operator names are not compared
OneNameAssumed(b, list) == FALSE

\* len(operator_names) > 1
SeveralNames(b, list) ==
    Cardinality({csv_operator_name(b[i]) : i \in Range(list)}) > 1

\* Operator.update_graph(channel) once channel_bundles has returned or
\* raised: what it can return or raise
graph_of(b, config, channel, sorted) ==
    LET all_bundles == sorted.list
        update_strategy == UpdateStrategy(config)
    IN  IF sorted.raised \/ \E i \in Range(all_bundles) : ~csv_full_name(b[i]).ok
        THEN {Raised(channel, InvalidBundle, 0, <<>>)}
        ELSE IF SeveralNames(b, all_bundles)
        THEN {Raised(channel, DifferentNames, 0, <<>>)}
        ELSE IF update_strategy = "semver-mode"
        THEN {Returned(channel, all_bundles, SemverEdges(all_bundles))}
        ELSE IF update_strategy = "replaces-mode"
        THEN replaces_graph(b, channel, all_bundles)
        ELSE {Raised(channel, Unsupported, 0, <<>>)}

\* Operator.update_graph(channel): what it can return or raise
update_graph(b, config, channel) ==
    UNION {graph_of(b, config, channel, sorted) :
              sorted \in channel_bundles(b, channel)}

\* ---- the operators the graph is built for ----
GraphBundles ==
    {Bundle(CsvName(hello, V_1_0_2), {"beta"}, {}, {}),
     Bundle(CsvName(hello, V_1_0_10), {"beta", "stable"},
            {CsvName(hello, V_v1_0_2)}, {}),
     Bundle(CsvName(hello, V_1_0_1x), {"beta"},
            {CsvName(hello, V_1_0_10)}, {CsvName(hello, V_1_0_2)}),
     Bundle(CsvName(hello, V_1_0_2_a_10), {"beta"}, {hello}, {}),
     Bundle(CsvName(hello, V_1_0_2_b), {"beta"},
            {}, {CsvName(other, V_1_0_2)}),
     Bundle(CsvName(other, V_1_0_2), {"stable"},
            {CsvName(hello, V_1_0_10)}, {}),
     Bundle(hello, {"stable"}, {}, {})}

\* ci.yaml: the updateGraph key, or none
UpdateGraphValues == {Absent, "semver-mode", "replaces-mode", "semver-skippatch"}

\* an operator directory with up to MaxBundles version directories, on
\* which one call is made
InitGraph ==
    /\ \E n \in 1..MaxBundles : bundles \in [1..n -> GraphBundles]
    /\ updateGraph \in UpdateGraphValues
    /\ cmps = {}
    /\ ret = NoReturn
    /\ IdleEngine
    /\ IdleCache

\* operator.channel_bundles(channel)
ChannelBundles(channel) ==
    /\ pc = "idle"
    /\ ret = NoReturn
    /\ \E sorted \in channel_bundles(bundles, channel) :
          ret' = [op |-> "channel_bundles", channel |-> channel,
                  error |-> IF sorted.raised THEN InvalidBundle ELSE "none",
                  bundle |-> 0, ref |-> <<>>,
                  all_bundles |-> sorted.list, graph |-> {}, value |-> {}]
    /\ UNCHANGED <<bundles, updateGraph, cmps>>
    /\ UNCHANGED <<engineVars, cacheVars>>

\* operator.update_graph(channel)
UpdateGraph(channel) ==
    /\ pc = "idle"
    /\ ret = NoReturn
    /\ ret' \in update_graph(bundles, updateGraph, channel)
    /\ UNCHANGED <<bundles, updateGraph, cmps>>
    /\ UNCHANGED <<engineVars, cacheVars>>

NextGraph ==
    \/ \E channel \in Channels : ChannelBundles(channel)
    \/ \E channel \in Channels : UpdateGraph(channel)

SpecGraph == InitGraph /\ [][NextGraph]_vars

(***************************************************************************)
(* Operator.default_channel.                                               *)
(***************************************************************************)
stable == <<"s", "t", "a", "b", "l", "e">>

candidate == <<"c", "a", "n", "d", "i", "d", "a", "t", "e">>

beta == <<"b", "e", "t", "a">>

V_1_0 == <<"1", ".", "0">>

V_2_0_0 == <<"2", ".", "0", ".", "0">>

\* Bundle.default_channel of a bundle that has the annotation
DefaultOf(bundle) == CHOOSE c \in bundle.default_channel : TRUE

\* the bundles x with x.default_channel is not None
Declaring(b) == {i \in DOMAIN b : b[i].default_channel # {}}

\* (Version, channel) < (Version, channel): the channels decide between
\* equal versions
VersionPairLt(x, y) ==
    LET v == VersionParse(csv_operator_version(x))
        w == VersionParse(csv_operator_version(y))
    IN  IF VersionCompare(v, w) = 0
        THEN StrLt(DefaultOf(x), DefaultOf(y))
        ELSE VersionCompare(v, w) < 0

\* (str, channel) < (str, channel)
StringPairLt(x, y) ==
    IF csv_operator_version(x) = csv_operator_version(y)
    THEN StrLt(DefaultOf(x), DefaultOf(y))
    ELSE StrLt(csv_operator_version(x), csv_operator_version(y))

\* the comparison of two of version_channel_pairs: Version objects when
\* every version parsed, the version strings when one raised ValueError
PairLt(b, D, x, y) ==
    IF \A i \in D : VersionParse(csv_operator_version(b[i])).ok
    THEN VersionPairLt(x, y)
    ELSE StringPairLt(x, y)

\* the first pair of the sorted list instead of the last
FirstOf(b, D, list) ==
    IF list = <<>> THEN {} ELSE b[list[1]].default_channel

\* sorted(version_channel_pairs)[-1][1], None on IndexError
LastOf(b, D, list) ==
    IF list = <<>> THEN {} ELSE b[list[Len(list)]].default_channel

\* Operator.default_channel: what it can return, for every order in which
\* the directory can be listed, or the exception it raises
default_channel(b) ==
    LET D == Declaring(b)
        lt == {e \in D \X D : PairLt(b, D, b[e[1]], b[e[2]])}
    IN  IF \E i \in D : ~csv_full_name(b[i]).ok
        THEN {[error |-> InvalidBundle, value |-> {}]}
        ELSE {[error |-> "none", value |-> LastOf(b, D, PySorted(lt, order))] :
                 order \in IterationOrders(D)}

\* ---- the operators whose default channel is computed ----
DefaultBundles ==
    {WithDefault(Bundle(CsvName(hello, V_1_0_2), {"beta"}, {}, {}), stable),
     WithDefault(Bundle(CsvName(hello, V_1_0_10), {"beta"}, {}, {}), candidate),
     WithDefault(Bundle(CsvName(hello, V_v1_0_2), {"beta"}, {}, {}), candidate),
     WithDefault(Bundle(CsvName(hello, V_1_0_2_b), {"beta"}, {}, {}), beta),
     WithDefault(Bundle(CsvName(hello, V_1_0), {"beta"}, {}, {}), beta),
     WithDefault(Bundle(hello, {"beta"}, {}, {}), beta),
     Bundle(CsvName(hello, V_2_0_0), {"beta"}, {}, {})}

\* an operator directory with up to MaxBundles version directories
InitDefault ==
    /\ \E n \in 1..MaxBundles : bundles \in [1..n -> DefaultBundles]
    /\ updateGraph = Absent
    /\ cmps = {}
    /\ ret = NoReturn
    /\ IdleEngine
    /\ IdleCache

\* operator.default_channel, computed on first access
DefaultChannel ==
    /\ pc = "idle"
    /\ ret = NoReturn
    /\ \E r \in default_channel(bundles) :
          ret' = [op |-> "default_channel", channel |-> "", error |-> r.error,
                  bundle |-> 0, ref |-> <<>>, all_bundles |-> <<>>,
                  graph |-> {}, value |-> r.value]
    /\ UNCHANGED <<bundles, updateGraph, cmps>>
    /\ UNCHANGED <<engineVars, cacheVars>>

NextDefault == DefaultChannel

SpecDefault == InitDefault /\ [][NextDefault]_vars

(***************************************************************************)
(* The child caches: Repo.operator / all_operators / has and               *)
(* Operator.bundle / all_bundles / has.                                    *)
(***************************************************************************)
\* most child objects one parent constructs
MaxObjects == 4

\* what a directory entry can be: nothing, something the child's probe
\* rejects, or a valid child
Entries == {"absent", "other", "valid"}

\* Operator.probe / Bundle.probe of the path of a key
Probe(dir, key) == dir[Directory(key)] = "valid"

\* the lookup that never finds the key
CachedNever(c, key) == 0

\* self._operator_cache[name] / self._bundle_cache[version]: the object, or
\* 0 for KeyError
Cached(c, key) == c[key]

\* operator_version of the Bundle (operator_name of the Operator) that is
\* constructed for the key: the name of the resolved path
ChildName(key) == Directory(key)

\* the exception of the child's constructor when its probe fails
InvalidChild(parent) ==
    IF parent = "Repo" THEN "InvalidOperatorException"
    ELSE "InvalidBundleException"

\* the entry is made before the child is constructed
LoadCachesFirst(dir, c, n, key) ==
    IF c[key] # 0
    THEN [object |-> c[key], new |-> FALSE, raised |-> FALSE, cache |-> c]
    ELSE IF dir[Directory(key)] = "valid"
         THEN [object |-> n + 1, new |-> TRUE, raised |-> FALSE,
               cache |-> [c EXCEPT ![key] = n + 1]]
         ELSE [object |-> 0, new |-> TRUE, raised |-> TRUE,
               cache |-> [c EXCEPT ![key] = n + 1]]

\* Repo.operator(name) / Operator.bundle(version) on a parent with cache c:
\* the object returned, whether it was constructed now, whether the
\* constructor raised, and the cache afterwards
Load(dir, c, n, key) ==
    IF Cached(c, key) # 0
    THEN [object |-> Cached(c, key), new |-> FALSE, raised |-> FALSE,
          cache |-> c]
    ELSE IF Probe(dir, key)
         THEN [object |-> n + 1, new |-> TRUE, raised |-> FALSE,
               cache |-> [c EXCEPT ![key] = n + 1]]
         ELSE [object |-> 0, new |-> FALSE, raised |-> TRUE, cache |-> c]

\* the part of the listing a generator runs through until it yields: the
\* entries that are not cached and that the probe rejects are passed over
RECURSIVE Advance(_, _, _)
Advance(dir, c, list) ==
    IF list = <<>> THEN [key |-> "", rest |-> <<>>]
    ELSE IF Cached(c, Head(list)) # 0 \/ Probe(dir, Head(list))
         THEN [key |-> Head(list), rest |-> Tail(list)]
         ELSE Advance(dir, c, Tail(list))

\* the orders in which iterdir() can list a directory
Listings(dir) ==
    LET S == {k \in DOMAIN dir : dir[k] # "absent"}
    IN  {l \in UNION {[1..n -> S] : n \in {Cardinality(S)}} :
            \A i, j \in 1..Len(l) : i # j => l[i] # l[j]}

\* a Repo directory with operators and an Operator directory with bundles
InitCache ==
    /\ fs \in {f \in [Parents -> UNION {[Dirs(p) -> Entries] : p \in Parents}] :
                 \A p \in Parents : DOMAIN f[p] = Dirs(p)}
    /\ cache = [p \in Parents |-> [k \in Keys(p) |-> 0]]
    /\ made = [p \in Parents |-> 0]
    /\ listing = [p \in Parents |-> <<>>]
    /\ got = NoCall
    /\ resolved = {}
    /\ IdleEngine
    /\ IdleOperator

\* the state after a call on parent p that gave the object r.object of key
Give(p, op, key, r) ==
    /\ cache' = [cache EXCEPT ![p] = r.cache]
    /\ made' = [made EXCEPT ![p] = IF r.new THEN @ + 1 ELSE @]
    /\ got' = [op |-> op, parent |-> p, key |-> key, object |-> r.object,
               new |-> r.new, raised |-> r.raised,
               error |-> IF r.raised THEN InvalidChild(p) ELSE "none",
               has |-> FALSE]
    /\ resolved' = IF r.object = 0 THEN resolved
                   ELSE resolved \cup {<<p, key, r.object>>}

\* repo.operator(name) / operator.bundle(version)
LoadChild(p, key) ==
    /\ pc = "idle"
    /\ made[p] < MaxObjects
    /\ Give(p, IF p = "Repo" THEN "operator" ELSE "bundle", key,
            Load(fs[p], cache[p], made[p], key))
    /\ UNCHANGED <<fs, listing>>
    /\ UNCHANGED <<engineVars, operatorVars>>

\* one next() of the generator: up to its next yield, or to its end
Yield(p, op, list) ==
    LET a == Advance(fs[p], cache[p], list)
    IN  /\ listing' = [listing EXCEPT ![p] = a.rest]
        /\ IF a.key = ""
           THEN /\ got' = [NoCall EXCEPT !.op = op, !.parent = p]
                /\ UNCHANGED <<cache, made, resolved>>
           ELSE Give(p, op, a.key, Load(fs[p], cache[p], made[p], a.key))

\* the first next() of repo.all_operators() / operator.all_bundles(): the
\* directory is listed
AllStart(p) ==
    /\ pc = "idle"
    /\ made[p] < MaxObjects
    /\ listing[p] = <<>>
    /\ \E l \in Listings(fs[p]) :
          Yield(p, IF p = "Repo" THEN "all_operators" ELSE "all_bundles", l)
    /\ UNCHANGED fs
    /\ UNCHANGED <<engineVars, operatorVars>>

\* a later next() of the running generator
AllNext(p) ==
    /\ pc = "idle"
    /\ made[p] < MaxObjects
    /\ listing[p] # <<>>
    /\ Yield(p, IF p = "Repo" THEN "all_operators" ELSE "all_bundles",
             listing[p])
    /\ UNCHANGED fs
    /\ UNCHANGED <<engineVars, operatorVars>>

\* repo.has(name) / operator.has(version)
Has(p, key) ==
    /\ pc = "idle"
    /\ got' = [NoCall EXCEPT !.op = "has", !.parent = p, !.key = key,
                             !.has = \/ Cached(cache[p], key) # 0
                                     \/ Probe(fs[p], key)]
    /\ UNCHANGED <<fs, cache, made, listing, resolved>>
    /\ UNCHANGED <<engineVars, operatorVars>>

\* the directory of a child is removed, or a valid or invalid one is created
ChangeDirectory(p, key) ==
    /\ pc = "idle"
    /\ key \in Dirs(p)
    /\ \E entry \in Entries \ {fs[p][key]} :
          fs' = [fs EXCEPT ![p][key] = entry]
    /\ UNCHANGED <<cache, made, listing, got, resolved>>
    /\ UNCHANGED <<engineVars, operatorVars>>

NextCache ==
    \E p \in Parents :
       \/ AllStart(p)
       \/ AllNext(p)
       \/ \E key \in Keys(p) :
             \/ LoadChild(p, key)
             \/ Has(p, key)
             \/ ChangeDirectory(p, key)

SpecCache == InitCache /\ [][NextCache]_vars

(***************************************************************************)
(* The version of a CSV name and of a replaces/skips reference.            *)
(***************************************************************************)
\* most leading v's of a version
MaxLeading == 2

\* n times "v"
Vs(n) == [i \in 1..n |-> "v"]

\* the texts that stand as .metadata.name and as spec.replaces
NameTexts ==
    {CsvName(name, Vs(n) \o version) :
        name \in {hello, other}, n \in 0..MaxLeading,
        version \in {V_1_0_2, V_1_0_10, V_1_0_1x, V_1_0_2_a_2,
                     V_1_0_2_b, V_1_0, V_2_0_0}}
    \cup {hello, other}

\* a bundle whose CSV has one text as its name and as its replaces field
InitNormalize ==
    /\ \E text \in NameTexts : bundles = <<Bundle(text, {}, {text}, {})>>
    /\ updateGraph = Absent
    /\ cmps = {}
    /\ ret = NoReturn
    /\ IdleEngine
    /\ IdleCache

\* bundle.csv_full_name
CsvFullName ==
    /\ pc = "idle"
    /\ ret.op # "csv_full_name"
    /\ LET full == csv_full_name(bundles[1])
       IN  ret' = [NoReturn EXCEPT
                      !.op = "csv_full_name",
                      !.error = IF full.ok THEN "none" ELSE InvalidBundle,
                      !.bundle = 1,
                      !.ref = full.version,
                      !.value = IF full.ok THEN {full.name} ELSE {}]
    /\ UNCHANGED <<bundles, updateGraph, cmps>>
    /\ UNCHANGED <<engineVars, cacheVars>>

\* the loop body of _replaces_graph for the bundle's replaces field, up to
\* the key of the lookup
ReplacedVersion ==
    /\ pc = "idle"
    /\ ret.op # "_replaces_graph"
    /\ \E ref \in Previous(bundles[1]) :
          ret' = [NoReturn EXCEPT
                     !.op = "_replaces_graph",
                     !.error = ReferenceError(bundles[1], ref),
                     !.bundle = 1,
                     !.ref = IF ReferenceError(bundles[1], ref) = "none"
                             THEN replaced_bundle_version(ref) ELSE <<>>]
    /\ UNCHANGED <<bundles, updateGraph, cmps>>
    /\ UNCHANGED <<engineVars, cacheVars>>

NextNormalize == CsvFullName \/ ReplacedVersion

SpecNormalize == InitNormalize /\ [][NextNormalize]_vars

(***************************************************************************)
(* CheckResult comparison: __eq__, __lt__, __hash__.                       *)
(***************************************************************************)
\* the class attribute `severity` of the class with the given kind
severity(kind) ==
    CASE kind = "unknown" -> 0
      [] kind = "success" -> 0
      [] kind = "warning" -> 40
      [] kind = "error" -> 90

\* `<=` on the severities
ResultLe(x, y) == severity(x.kind) <= severity(y.kind)

\* CheckResult.__lt__: int(self) < int(other)
ResultLt(x, y) == severity(x.kind) < severity(y.kind)

\* the directory of the one operator the resources belong to
OperatorDir == "hello"

\* what Bundle.__hash__ hashes: the operator directory name and the version
\* directory name, which the bundle's position in `bundles` stands for
BundleHash(i) == <<OperatorDir, i>>

\* the hash of a result's origin: a bundle's, or that of None
OriginHash(origin) ==
    IF origin = NoTarget THEN <<>> ELSE BundleHash(origin.id)

\* what CheckResult.__hash__ hashes
ResultHash(x) == <<x.kind, x.reason, x.check, OriginHash(x.origin), x.suite>>

\* the tuples reach the comparison of the two origins: the items before
\* them are equal
OriginsCompared(x, y) ==
    x.kind = y.kind /\ x.reason = y.reason /\ x.check = y.check

\* origin == origin inside the tuple comparison: the same object, or two
\* bundles that Bundle.__eq__ holds equal
OriginEq(b, o, q) ==
    \/ o = q
    \/ /\ o # NoTarget
       /\ q # NoTarget
       /\ BundleEq(b[o.id], b[q.id])

\* Bundle.__eq__ of two different bundles raises InvalidBundleException
OriginRaises(b, o, q) ==
    /\ o # q
    /\ o # NoTarget
    /\ q # NoTarget
    /\ ~csv_full_name(b[o.id]).ok \/ ~csv_full_name(b[q.id]).ok

\* CheckResult.__eq__ of two results of the classes CheckResult, Ok, Warn
\* and Fail
ResultEq(b, x, y) ==
    /\ OriginsCompared(x, y)
    /\ OriginEq(b, x.origin, y.origin)
    /\ x.suite = y.suite

\* ---- the results that are compared ----
BundleTarget(i) == [id |-> i, types |-> {"Bundle"}]

ResultBundles ==
    {Bundle(CsvName(hello, V_1_0_2), {}, {}, {}),
     Bundle(CsvName(hello, V_1_0_2_b), {}, {}, {}),
     Bundle(CsvName(hello, V_1_0_10), {}, {}, {}),
     Bundle(hello, {}, {}, {})}

ResultKinds == {"unknown", "success", "warning", "error"}

ResultOrigins == {NoTarget, BundleTarget(1), BundleTarget(2)}

\* two results: a first one of any kind on any resource, and a second one
\* with any fields
InitResults ==
    /\ bundles \in [1..2 -> ResultBundles]
    /\ \E k1, k2 \in ResultKinds, o1, o2 \in ResultOrigins,
          reason \in {"foo", "bar"}, check \in {NoName, check_a},
          suite \in {NoSuite, "operator_repo.checks"} :
          out = <<CheckResult(k1, "foo", check_a, o1, NoSuite),
                  CheckResult(k2, reason, check, o2, suite)>>
    /\ modules = [k \in Kinds |-> Missing]
    /\ suite_name = "operator_repo.checks"
    /\ skip_tests = <<>>
    /\ tests = <<>>
    /\ targets = <<>>
    /\ checks = [k \in Kinds |-> <<>>]
    /\ pc = "idle"
    /\ ti = 1
    /\ ki = 1
    /\ ci = 1
    /\ any_results = FALSE
    /\ calls = <<>>
    /\ updateGraph = Absent
    /\ cmps = {}
    /\ ret = NoReturn
    /\ IdleCache

\* what out[i] == out[j], out[i] < out[j] and the two hashes give
ResultCompared(i, j) ==
    LET x == out[i]
        y == out[j]
        raised == OriginsCompared(x, y) /\ OriginRaises(bundles, x.origin, y.origin)
    IN  [a |-> i, b |-> j, raised |-> raised,
         lt |-> ResultLt(x, y),
         eq |-> IF raised THEN FALSE ELSE ResultEq(bundles, x, y),
         same_hash |-> ResultHash(x) = ResultHash(y)]

\* two of the results are compared and hashed
CompareResults(i, j) ==
    /\ pc = "idle"
    /\ cmps = {}
    /\ cmps' = {ResultCompared(i, j)}
    /\ UNCHANGED <<bundles, updateGraph, ret>>
    /\ UNCHANGED <<engineVars, cacheVars>>

NextResults == \E i, j \in 1..2 : CompareResults(i, j)

SpecResults == InitResults /\ [][NextResults]_vars

(***************************************************************************)
(* The rule check_upgrade.                                                 *)
(***************************************************************************)
IndexErr == "IndexError: list index out of range"

\* the channel name an annotation value stands for
ChannelName(text) ==
    CASE text = stable -> "stable"
      [] text = beta -> "beta"
      [] text = candidate -> "candidate"

\* Operator.channels
operator_channels(b) == UNION {b[i].channels : i \in DOMAIN b}

\* sorted(all_channels)
SortedChannels(S) ==
    SelectSeq(<<"beta", "candidate", "stable">>, LAMBDA c : c \in S)

\* every bundle that is no key of the graph is dangling, the head too
DanglingWithHead(b, list, graph, channel_head) ==
    {x \in Range(list) : x \notin {e[1] : e \in graph}}

\* {x for x in channel_bundles if x not in graph and x != channel_head}
dangling_bundles(b, list, graph, channel_head) ==
    {x \in Range(list) :
        /\ x \notin {e[1] : e \in graph}
        /\ ~(x = channel_head \/ BundleEq(b[x], b[channel_head]))}

\* the body of the try block raised: Fail(str(exc))
ChannelFailed(channel, error) ==
    [channel |-> channel, fail |-> TRUE, error |-> error, dangling |-> {},
     members |-> <<>>, head |-> 0, graph |-> {}]

\* the body of the try block ended: Fail(dangling bundles) or nothing
ChannelChecked(channel, list, channel_head, graph, dangling) ==
    [channel |-> channel, fail |-> dangling # {}, error |-> "none",
     dangling |-> dangling, members |-> list, head |-> channel_head,
     graph |-> graph]

\* one turn of the loop of check_upgrade: what it can yield for the channel;
\* the three calls that sort the channel's bundles iterate the same set in
\* the same order
check_channel(b, config, channel) ==
    UNION {
      IF sorted.raised THEN {ChannelFailed(channel, InvalidBundle)}
      ELSE IF sorted.list = <<>> THEN {ChannelFailed(channel, IndexErr)}
      ELSE LET channel_head == sorted.list[Len(sorted.list)]
           IN  {IF r.error # "none" THEN ChannelFailed(channel, r.error)
                ELSE ChannelChecked(channel, sorted.list, channel_head, r.graph,
                        dangling_bundles(b, sorted.list, r.graph, channel_head))
                   : r \in graph_of(b, config, channel, sorted)}
      : sorted \in channel_bundles(b, channel)}

\* the results the loop can yield for the channels of the list, in order
RECURSIVE ChannelResults(_, _, _)
ChannelResults(b, config, list) ==
    IF list = <<>> THEN {<<>>}
    ELSE LET first == check_channel(b, config, Head(list))
             rest == ChannelResults(b, config, Tail(list))
         IN  {<<r>> \o s : r \in first, s \in rest}

\* check_upgrade(operator): the exception that leaves it, or the results
\* of the channels in the order of their names
check_upgrade(b, config) ==
    UNION {
      IF d.error # "none" THEN {[error |-> d.error, results |-> <<>>]}
      ELSE LET all_channels ==
                   operator_channels(b) \cup {ChannelName(c) : c \in d.value}
               list == SortedChannels(all_channels)
           IN  {[error |-> "none", results |-> s] :
                   s \in ChannelResults(b, config, list)}
      : d \in default_channel(b)}

\* ---- the operators the rule is run on ----
UpgradeBundles ==
    {WithDefault(Bundle(CsvName(hello, V_1_0_2), {"beta"}, {}, {}), beta),
     WithDefault(Bundle(CsvName(hello, V_1_0_10), {"beta"},
                        {CsvName(hello, V_v1_0_2)}, {}), beta),
     Bundle(CsvName(hello, V_1_0_10), {"beta", "stable"}, {}, {}),
     WithDefault(Bundle(CsvName(hello, V_2_0_0), {"beta"}, {hello}, {}), stable),
     WithDefault(Bundle(hello, {"stable"}, {}, {}), candidate),
     Bundle(CsvName(hello, V_1_0_2_b), {"stable"},
            {}, {CsvName(hello, V_1_0_10)})}

InitUpgrade ==
    /\ \E n \in 1..MaxBundles : bundles \in [1..n -> UpgradeBundles]
    /\ updateGraph \in UpdateGraphValues
    /\ cmps = {}
    /\ ret = NoReturn
    /\ IdleEngine
    /\ IdleCache

\* list(check_upgrade(operator))
CheckUpgrade ==
    /\ pc = "idle"
    /\ ret = NoReturn
    /\ \E r \in check_upgrade(bundles, updateGraph) :
          ret' = [NoReturn EXCEPT !.op = "check_upgrade", !.error = r.error,
                                  !.all_bundles = r.results]
    /\ UNCHANGED <<bundles, updateGraph, cmps>>
    /\ UNCHANGED <<engineVars, cacheVars>>

NextUpgrade == CheckUpgrade

SpecUpgrade == InitUpgrade /\ [][NextUpgrade]_vars

(***************************************************************************)
(* Properties of the Bundle ordering.                                      *)
(***************************************************************************)
\* precedence of two pre-release identifiers (semver.org, item 11.4)
IdPrecedes(x, y) ==
    LET xnum == x # <<>> /\ AllDigits(x)
        ynum == y # <<>> /\ AllDigits(y)
    IN  IF xnum /\ ynum THEN NumVal(x) < NumVal(y)
        ELSE IF xnum THEN TRUE
        ELSE IF ynum THEN FALSE
        ELSE StrLt(x, y)

\* precedence of two pre-release strings: the first differing identifier
\* decides, and a proper prefix precedes
PrereleasePrecedes(p, q) ==
    LET xs == Split(p, ".")
        ys == Split(q, ".")
    IN  \E k \in 1..Len(ys) :
            /\ \A m \in 1..(k - 1) : m <= Len(xs) /\ xs[m] = ys[m]
            /\ k > Len(xs) \/ IdPrecedes(xs[k], ys[k])

\* v has lower precedence than w (semver.org, item 11)
SemverPrecedes(v, w) ==
    \/ v.major < w.major
    \/ v.major = w.major /\ v.minor < w.minor
    \/ v.major = w.major /\ v.minor = w.minor /\ v.patch < w.patch
    \/ /\ v.major = w.major /\ v.minor = w.minor /\ v.patch = w.patch
       /\ v.prerelease # <<>>
       /\ w.prerelease = <<>> \/ PrereleasePrecedes(v.prerelease, w.prerelease)

\* the recorded comparison is one of two bundles that have a CSV name, and
\* the same operator name in it
OfOneOperator(f) ==
    /\ csv_full_name(bundles[f.a]).ok
    /\ csv_full_name(bundles[f.b]).ok
    /\ csv_full_name(bundles[f.a]).name = csv_full_name(bundles[f.b]).name

BothParse(f) ==
    /\ VersionParse(csv_full_name(bundles[f.a]).version).ok
    /\ VersionParse(csv_full_name(bundles[f.b]).version).ok

\* C7: for two version strings that both parse as semantic versions, `<`
\* and `==` of the bundles are semantic-version precedence; when one of them
\* does not parse, they are the comparison of the two strings; neither raises
C7_SemverElseLexical ==
    \A f \in cmps :
        OfOneOperator(f) =>
            LET s == csv_full_name(bundles[f.a]).version
                t == csv_full_name(bundles[f.b]).version
                v == VersionParse(s)
                w == VersionParse(t)
            IN  /\ ~f.raised
                /\ IF v.ok /\ w.ok
                   THEN /\ f.lt = SemverPrecedes(v, w)
                        /\ f.eq = (~SemverPrecedes(v, w) /\ ~SemverPrecedes(w, v))
                   ELSE /\ f.lt = StrLt(s, t)
                        /\ f.eq = (s = t)

\* a semver comparison that disagrees with the order of the strings, and a
\* fallback comparison, have both been made
C7_Witness ==
    \E f, g \in cmps :
        /\ OfOneOperator(f) /\ BothParse(f) /\ f.lt
        /\ StrLt(csv_full_name(bundles[f.b]).version,
                 csv_full_name(bundles[f.a]).version)
        /\ OfOneOperator(g) /\ ~BothParse(g) /\ g.lt

\* C8: for two bundles with the same CSV operator name, exactly one of
\* B1 < B2, B1 == B2, B2 < B1 holds
C8_Trichotomy ==
    \A f, h \in cmps :
        h.a = f.b /\ h.b = f.a /\ OfOneOperator(f) =>
            \/ f.lt /\ ~f.eq /\ ~h.lt
            \/ ~f.lt /\ f.eq /\ ~h.lt
            \/ ~f.lt /\ ~f.eq /\ h.lt

\* two bundles whose version strings differ and are equal as semantic
\* versions have been compared both ways
C8_Witness ==
    \E f, h \in cmps :
        /\ h.a = f.b /\ h.b = f.a /\ f.a # f.b
        /\ OfOneOperator(f) /\ BothParse(f)
        /\ csv_full_name(bundles[f.a]).version # csv_full_name(bundles[f.b]).version
        /\ f.eq

\* C9: `<` is transitive over the bundles of one operator: A < B and B < C
\* imply A < C, whether or not the versions parse as semantic versions
C9_Transitive ==
    \A f, g, h \in cmps :
        /\ g.a = f.b /\ h.a = f.a /\ h.b = g.b
        /\ f.lt /\ g.lt
        /\ OfOneOperator(f) /\ OfOneOperator(g)
        => h.lt


(***************************************************************************)
(* Properties of the update graph.                                         *)
(***************************************************************************)
\* `<` orders the bundles of S strictly and totally
StrictlyOrdered(S) ==
    /\ \A x, y \in S :
          x # y => (BundleLt(bundles[x], bundles[y]) # BundleLt(bundles[y], bundles[x]))
    /\ \A x \in S : ~BundleLt(bundles[x], bundles[x])
    /\ \A x, y, z \in S :
          BundleLt(bundles[x], bundles[y]) /\ BundleLt(bundles[y], bundles[z]) => BundleLt(bundles[x], bundles[z])

SemverReturned ==
    /\ ret.op = "update_graph"
    /\ ret.error = "none"
    /\ updateGraph = "semver-mode"

\* C10: in semver-mode update_graph(channel) returns exactly the edges
\* b[i] -> {b[i+1]} of the channel's bundles b sorted by version: every
\* bundle but the head has exactly one successor, the head is not a key
C10_SemverGraph ==
    SemverReturned =>
        LET b == ret.all_bundles
            n == Len(b)
            S == ChannelSet(bundles, ret.channel)
        IN  /\ Range(b) = S /\ n = Cardinality(S)
            /\ StrictlyOrdered(S) =>
                   \A i, j \in 1..n : i < j => BundleLt(bundles[b[i]], bundles[b[j]])
            /\ ret.graph = {e \in S \X S :
                               \E i \in 1..(n - 1) : e = <<b[i], b[i + 1]>>}
            /\ \A i \in 1..(n - 1) :
                   {e[2] : e \in {d \in ret.graph : d[1] = b[i]}} = {b[i + 1]}
            /\ n > 0 => \A e \in ret.graph : e[1] # b[n]

\* the graph of a channel of three strictly ordered bundles was returned
C10_Witness ==
    /\ SemverReturned
    /\ Len(ret.all_bundles) = 3
    /\ StrictlyOrdered(ChannelSet(bundles, ret.channel))
    /\ Cardinality(ret.graph) = 2


(***************************************************************************)
(* Properties of update_graph in replaces-mode and of its errors.          *)
(***************************************************************************)
Called == ret.op = "update_graph"

ReplacesMode == updateGraph \in {Absent, "replaces-mode"}

\* the bundles of the channel update_graph was called for
Channel == ChannelSet(bundles, ret.channel)

\* spec.replaces and spec.skips of the bundle in directory i
Refs(i) == bundles[i].replaces \cup bundles[i].skips

NoSeparator(r) == \A k \in 1..Len(r) : r[k] # "."

\* the reference has a separator and names another operator than the
\* CSV of the bundle it is in
CrossOperator(i, r) ==
    /\ ~NoSeparator(r)
    /\ SplitFirst(r)[1] # csv_full_name(bundles[i]).name

\* the version rv of a reference is the version v, after leading v's
Names(rv, v) ==
    \E k \in 0..Len(rv) :
        /\ \A m \in 1..k : rv[m] = "v"
        /\ SubSeq(rv, k + 1, Len(rv)) = v

\* a reference of the bundle in directory y names the bundle in directory x
Replaces(y, x) ==
    \E r \in Refs(y) :
        /\ ~NoSeparator(r)
        /\ SplitFirst(r)[1] = csv_full_name(bundles[y]).name
        /\ Names(SplitFirst(r)[2], csv_full_name(bundles[x]).version)

\* every bundle of the channel has a CSV name, and the same operator in it
OneOperator ==
    /\ \A i \in Channel : csv_full_name(bundles[i]).ok
    /\ \A i, j \in Channel :
          csv_full_name(bundles[i]).name = csv_full_name(bundles[j]).name

DistinctVersions ==
    \A i, j \in Channel :
        i # j => csv_full_name(bundles[i]).version # csv_full_name(bundles[j]).version

WellFormedRefs ==
    \A i \in Channel : \A r \in Refs(i) : ~NoSeparator(r) /\ ~CrossOperator(i, r)

\* C11: in replaces-mode, for channel bundles with pairwise distinct CSV
\* versions, the graph has the edge A -> B exactly when A and B are in the
\* channel and B's replaces or skips names A's version; keys and values are
\* channel members
C11_ReplacesEdges ==
    Called /\ ReplacesMode /\ ret.error = "none" /\ DistinctVersions =>
        /\ ret.graph = {e \in Channel \X Channel : Replaces(e[2], e[1])}
        /\ \A e \in ret.graph : e[1] \in Channel /\ e[2] \in Channel

\* a graph of three bundles with an edge from replaces and one from skips
C11_Witness ==
    /\ Called /\ ReplacesMode /\ ret.error = "none" /\ DistinctVersions
    /\ Cardinality(Channel) = 3
    /\ \E e \in ret.graph :
          /\ bundles[e[2]].skips # {}
          /\ ~\E r \in bundles[e[2]].replaces :
                 Names(SplitFirst(r)[2], csv_full_name(bundles[e[1]]).version)
    /\ \E e \in ret.graph : bundles[e[2]].skips = {}

\* C12: in replaces-mode a reference without "." in a channel bundle makes
\* update_graph raise and return no graph; the ValueError for it names that
\* bundle and that reference, and it is the error raised when nothing else
\* is wrong with the channel
C12_NoSeparatorRaises ==
    Called /\ ReplacesMode
           /\ (\E i \in Channel : \E r \in Refs(i) : NoSeparator(r)) =>
        /\ ret.error # "none"
        /\ ret.graph = {}
        /\ ret.error = InvalidField =>
               /\ ret.bundle \in Channel
               /\ ret.ref \in Refs(ret.bundle)
               /\ NoSeparator(ret.ref)
        /\ OneOperator /\ (\A i \in Channel : \A r \in Refs(i) : ~CrossOperator(i, r))
               => ret.error = InvalidField

\* the error was raised for a channel of two or more bundles
C12_Witness ==
    /\ Called /\ ReplacesMode
    /\ ret.error = InvalidField
    /\ NoSeparator(ret.ref)
    /\ Cardinality(Channel) >= 2

\* C13: in replaces-mode a reference to another operator in a channel bundle
\* makes update_graph raise and return no graph, whether or not a bundle of
\* the referenced version exists; the ValueError for it names that bundle
\* and it is the error raised when nothing else is wrong with the channel
C13_CrossOperatorRaises ==
    Called /\ ReplacesMode /\ (\A i \in Channel : csv_full_name(bundles[i]).ok)
           /\ (\E i \in Channel : \E r \in Refs(i) : CrossOperator(i, r)) =>
        /\ ret.error # "none"
        /\ ret.graph = {}
        /\ ret.error = DifferentOperator =>
               /\ ret.bundle \in Channel
               /\ ret.ref \in Refs(ret.bundle)
               /\ CrossOperator(ret.bundle, ret.ref)
        /\ OneOperator /\ (\A i \in Channel : \A r \in Refs(i) : ~NoSeparator(r))
               => ret.error = DifferentOperator

\* the error was raised for a reference whose version a channel bundle has
C13_Witness ==
    /\ Called /\ ReplacesMode
    /\ ret.error = DifferentOperator
    /\ \E x \in Channel :
          Names(SplitFirst(ret.ref)[2], csv_full_name(bundles[x]).version)

\* some reference in the channel names a version no channel bundle has
Dangling ==
    \E i \in Channel : \E r \in Refs(i) :
        \A x \in Channel :
            ~Names(SplitFirst(r)[2], csv_full_name(bundles[x]).version)

\* C14: in replaces-mode, with well-formed references to the bundles' own
\* operator, update_graph returns also when a referenced version is missing
\* from the channel, and every edge comes from a reference to a version the
\* channel has: the missing one adds no key and no edge
C14_DanglingSkipped ==
    Called /\ ReplacesMode /\ OneOperator /\ WellFormedRefs =>
        /\ ret.error = "none"
        /\ \A e \in ret.graph :
               e[1] \in Channel /\ e[2] \in Channel /\ Replaces(e[2], e[1])

\* a graph was returned for a channel with a dangling reference
C14_Witness ==
    /\ Called /\ ReplacesMode /\ OneOperator /\ WellFormedRefs
    /\ Dangling
    /\ Cardinality(Channel) >= 2
    /\ ret.error = "none"

\* C15: when the channel's bundles do not all have the same CSV operator
\* name, update_graph raises that error and builds no graph, whatever the
\* update strategy and whatever the references are
C15_SeveralNamesRaise ==
    Called /\ (\A i \in Channel : csv_full_name(bundles[i]).ok) /\ ~OneOperator =>
        /\ ret.error = DifferentNames
        /\ ret.graph = {}

\* the error was raised under an unsupported strategy, and with a faulty
\* reference in the channel
C15_Witness ==
    /\ Called
    /\ ret.error = DifferentNames
    /\ updateGraph = "semver-skippatch"
    /\ ~WellFormedRefs

DefaultReturned == ret.op = "default_channel" /\ ret.error = "none"

DeclaringParse ==
    \A i \in Declaring(bundles) :
        VersionParse(csv_operator_version(bundles[i])).ok

\* no declaring bundle has a version of higher semver precedence than i's
HighestVersion(i) ==
    \A j \in Declaring(bundles) :
        VersionCompare(VersionParse(csv_operator_version(bundles[j])),
                       VersionParse(csv_operator_version(bundles[i]))) <= 0

\* no declaring bundle has a version string above i's
HighestString(i) ==
    \A j \in Declaring(bundles) :
        ~StrLt(csv_operator_version(bundles[i]),
               csv_operator_version(bundles[j]))

\* C17: Operator.default_channel is none exactly when no bundle declares a
\* default channel; otherwise it is the default channel declared by a
\* bundle of the highest version among the declaring bundles (bundles
\* without a default are ignored whatever their version), the versions
\* being compared as semantic versions when all of them parse and as
\* strings otherwise.
C17_HighestDeclaring ==
    DefaultReturned =>
        /\ ret.value = {} <=> Declaring(bundles) = {}
        /\ ret.value # {} =>
              \E i \in Declaring(bundles) :
                 /\ bundles[i].default_channel = ret.value
                 /\ IF DeclaringParse THEN HighestVersion(i)
                    ELSE HighestString(i)

\* the declared default of a lower version wins over a higher version
\* that declares none
C17_Witness ==
    /\ DefaultReturned
    /\ DeclaringParse
    /\ ret.value = {candidate}
    /\ Cardinality(Declaring(bundles)) = 2
    /\ \E i \in DOMAIN bundles : bundles[i].csv = CsvName(hello, V_2_0_0)
    /\ \E i \in Declaring(bundles) : bundles[i].csv = CsvName(hello, V_1_0_2)
    /\ \E i \in Declaring(bundles) : bundles[i].csv = CsvName(hello, V_1_0_10)

\* two declaring bundles share the highest version and declare different
\* default channels
Tie ==
    /\ DeclaringParse
    /\ \E i, j \in Declaring(bundles) :
          /\ HighestVersion(i)
          /\ HighestVersion(j)
          /\ bundles[i].default_channel # bundles[j].default_channel

\* C18: when the highest version among the declaring bundles is shared by
\* two bundles that declare different default channels,
\* Operator.default_channel is none.
C18_TieIsNone == (DefaultReturned /\ Tie) => ret.value = {}

\* i declares a default channel and no declaring bundle is above it under
\* Bundle `<`
GreatestBundle(i) ==
    /\ i \in Declaring(bundles)
    /\ \A j \in Declaring(bundles) : ~BundleLt(bundles[i], bundles[j])

\* C19: Operator.default_channel is the default channel of the bundle that
\* is greatest under Bundle `<` among those declaring a default channel,
\* also when semver-parsable and non-parsable versions are mixed.
C19_SameOrderAsBundleLt ==
    (DefaultReturned /\ Declaring(bundles) # {}) =>
        \E i \in Declaring(bundles) :
           /\ GreatestBundle(i)
           /\ bundles[i].default_channel = ret.value

(***************************************************************************)
(* Properties of the child caches.                                         *)
(***************************************************************************)
\* C20: over any sequence of operator(name), all_operators() and has(name)
\* calls on one Repo (bundle(version), all_bundles() and has(version) on
\* one Operator), every object ever handed out for a key is the object the
\* cache holds for that key now: the entry made by the first resolution is
\* never removed or rebound, and every later resolution returns it.
C20_SameInstance ==
    \A t \in resolved : Cached(cache[t[1]], t[2]) = t[3]

\* a key is resolved again, from the cache, after its directory has gone,
\* while the parent has constructed a second child
C20_Witness ==
    /\ got.op \in {"operator", "bundle", "all_operators", "all_bundles"}
    /\ got.object # 0
    /\ ~got.new
    /\ ~Probe(fs[got.parent], got.key)
    /\ made[got.parent] = 2

\* has(key) as the parent would answer it in the current state
HasNow(p, key) == Cached(cache[p], key) # 0 \/ Probe(fs[p], key)

\* C21: operator(name) / bundle(version) for a key that is not cached and
\* whose path fails the child's probe raises the child's own error
\* (InvalidOperatorException, InvalidBundleException), adds no cache entry
\* and leaves has(key) false.
C21_FailedProbeRaises ==
    [][\A p \in Parents : \A key \in Keys(p) :
          (LoadChild(p, key) /\ Cached(cache[p], key) = 0
                             /\ ~Probe(fs[p], key))
          => /\ got'.raised
             /\ got'.error = InvalidChild(p)
             /\ got'.object = 0
             /\ cache' = cache
             /\ ~HasNow(p, key)']_vars

\* a resolution has failed on a parent that holds another child, and the
\* failed key has no entry
C21_Witness ==
    /\ got.op \in {"operator", "bundle"}
    /\ got.raised
    /\ made[got.parent] = 1
    /\ Cached(cache[got.parent], got.key) = 0
    /\ ~HasNow(got.parent, got.key)

(***************************************************************************)
(* Independence of the enumeration order.                                  *)
(***************************************************************************)
\* two lists of bundles that Python's list == holds equal: the same
\* directories, or bundles that Bundle.__eq__ holds equal, position by
\* position
SameList(k, l) ==
    /\ Len(k) = Len(l)
    /\ \A i \in 1..Len(k) :
          k[i] = l[i] \/ BundleEq(bundles[k[i]], bundles[l[i]])

\* two graphs with the same edges, up to Bundle.__eq__
SameGraph(g, h) ==
    /\ \A e \in g : \E f \in h : SameList(e, f)
    /\ \A f \in h : \E e \in g : SameList(e, f)

\* C22: channel_bundles(channel) and update_graph(channel) give the same
\* result whatever the order in which the bundle directories are listed
\* and the set of the channel's bundles is iterated: what the call gave is
\* what it gives for every other enumeration order.
C22_OrderIndependent ==
    /\ (ret.op = "channel_bundles" /\ ret.error = "none") =>
          \A sorted \in channel_bundles(bundles, ret.channel) :
             ~sorted.raised /\ SameList(sorted.list, ret.all_bundles)
    /\ (ret.op = "update_graph" /\ ret.error = "none") =>
          \A r \in update_graph(bundles, updateGraph, ret.channel) :
             r.error = "none" /\ SameGraph(r.graph, ret.graph)

(***************************************************************************)
(* Properties of the version normalisation.                                *)
(***************************************************************************)
\* the text with one leading v removed, if it has one
WithoutOneV(s) == IF s # <<>> /\ Head(s) = "v" THEN Tail(s) ELSE s

\* C23: the version part of a CSV name and of a replaces/skips reference
\* is the text after the first "." with at most one leading v removed, and
\* no more (vv1.0.0 gives v1.0.0).
C23_SingleLeadingV ==
    (ret.op \in {"csv_full_name", "_replaces_graph"} /\ ret.error = "none") =>
        ret.ref = WithoutOneV(SplitFirst(bundles[1].csv)[2])

(***************************************************************************)
(* Properties of the CheckResult comparison.                               *)
(***************************************************************************)
\* C24: two CheckResults with identical (kind, reason, rule, resource,
\* suite) are equal and have the same hash, and two results that differ
\* in one of the five fields are not equal.
C24_EqualIffSameFields ==
    \A c \in cmps :
       /\ out[c.a] = out[c.b] => (~c.raised /\ c.eq /\ c.same_hash)
       /\ out[c.a] # out[c.b] => ~c.eq

\* C25: a < b holds exactly when a's severity tier is strictly lower than
\* b's, with success (0) < warning (40) < error (90), whatever the other
\* fields are.
C25_OrderBySeverity ==
    \A c \in cmps :
       LET Tier(kind) == IF kind = "error" THEN 3
                         ELSE IF kind = "warning" THEN 2 ELSE 1
       IN  /\ c.lt <=> Tier(out[c.a].kind) < Tier(out[c.b].kind)
           /\ severity("success") = 0
           /\ severity("warning") = 40
           /\ severity("error") = 90

\* a warning is below an error although every other field differs, and
\* two results of one tier that differ elsewhere are not below each other
C25_Witness ==
    /\ \E c \in cmps :
          /\ c.lt
          /\ out[c.a].kind = "warning"
          /\ out[c.b].kind = "error"
          /\ out[c.a].reason # out[c.b].reason
          /\ out[c.a].check # out[c.b].check
          /\ out[c.a].origin # out[c.b].origin
          /\ out[c.a].suite # out[c.b].suite

(***************************************************************************)
(* Bundle equality and hashing.                                            *)
(***************************************************************************)
\* C28: Bundle equality is consistent with Bundle hashing: two bundles
\* that are == (same CSV operator name, equal CSV version) have the same
\* hash, the hash being taken of the operator directory name and the
\* version directory name.
C28_EqualBundlesHashEqual ==
    \A c \in cmps :
       (~c.raised /\ c.eq) => BundleHash(c.a) = BundleHash(c.b)

(***************************************************************************)
(* Properties of check_upgrade.                                            *)
(***************************************************************************)
UpgradeDone == ret.op = "check_upgrade"

\* the channels the rule has to evaluate: those of the bundles and the
\* declared defaults
ChannelsToEvaluate ==
    operator_channels(bundles)
        \cup {ChannelName(DefaultOf(bundles[i])) : i \in Declaring(bundles)}

\* C26: check_upgrade never propagates an exception: every error raised
\* by the model or the graph builder while the rule runs, also while the
\* operator's channels and default channel are computed, is caught and
\* re-emitted as an error result, and the remaining channels are still
\* evaluated.
C26_NeverPropagates ==
    UpgradeDone =>
        /\ ret.error = "none"
        /\ \A c \in operator_channels(bundles) :
              \E k \in 1..Len(ret.all_bundles) : ret.all_bundles[k].channel = c

\* x is a bundle other than the channel head h
OtherThanHead(x, h) == ~(x = h \/ BundleEq(bundles[x], bundles[h]))

\* the bundles that have a successor in the graph
GraphKeys(graph) == {e[1] : e \in graph}

\* C27: check_upgrade yields the error "Channel c has dangling bundles"
\* for channel c exactly when update_graph(c) succeeds and some member
\* bundle of c other than the channel head (a bundle that is not == to
\* it) is no key of the graph; a channel whose every non-head bundle has a
\* successor yields nothing.
C27_DanglingIffNoSuccessor ==
    (UpgradeDone /\ ret.error = "none") =>
        \A k \in 1..Len(ret.all_bundles) :
           LET r == ret.all_bundles[k]
               succeeded == \E g \in graph_of(bundles, updateGraph, r.channel,
                                               [raised |-> FALSE, list |-> r.members]) :
                               g.error = "none" /\ g.graph = r.graph
               members == ChannelSet(bundles, r.channel)
               dangling == {x \in members :
                               OtherThanHead(x, r.head) /\ x \notin GraphKeys(r.graph)}
           IN  /\ r.error = "none" =>
                     /\ succeeded
                     /\ Range(r.members) = members
                     /\ Len(r.members) = Cardinality(members)
                     /\ r.head \in members
                     /\ r.fail <=> dangling # {}
                     /\ r.dangling = dangling
               /\ r.error # "none" => r.fail /\ r.dangling = {}

\* the rule reported dangling bundles for one channel of several members
\* and nothing for another channel of several members
C27_Witness ==
    /\ UpgradeDone
    /\ ret.error = "none"
    /\ \E k, l \in 1..Len(ret.all_bundles) :
          /\ ret.all_bundles[k].dangling # {}
          /\ Len(ret.all_bundles[k].members) >= 2
          /\ ret.all_bundles[l].error = "none"
          /\ ~ret.all_bundles[l].fail
          /\ Len(ret.all_bundles[l].members) >= 2

\* C29: after any sequence of bundle(version) and all_bundles() calls with
\* arbitrary version strings, every entry (k, B) of the bundle cache has
\* B.operator_version = k (likewise O.operator_name = k in a repository's
\* operator cache).
C29_KeyIsChildName ==
    \A p \in Parents : \A key \in Keys(p) :
       Cached(cache[p], key) # 0 => ChildName(key) = key

(***************************************************************************)
(* The order of the results of run_suite.                                  *)
(***************************************************************************)
\* call c comes before call d in the loops of run_suite: an earlier
\* target, or the same target and an earlier kind of SUPPORTED_TYPES, or
\* the same kind and an earlier rule of the discovered list
CallBefore(c, d) ==
    \/ c.ti < d.ti
    \/ c.ti = d.ti /\ c.ki < d.ki
    \/ c.ti = d.ti /\ c.ki = d.ki /\ c.ci < d.ci

\* the run_check invocation that yielded out[p]: the last one that had
\* started when out[p] was yielded
CallOf(p) ==
    CHOOSE j \in 1..Len(calls) :
        /\ calls[j].first <= p
        /\ \A k \in 1..Len(calls) : calls[k].first <= p => k <= j

====
